---- MODULE Spec2Model ----
(***************************************************************************)
(* easy-pg: the transaction runner (Client.ExecTx) and the migration       *)
(* manager (MigrationManager) of package postgres, as one sequential       *)
(* caller driving a PostgreSQL database through a pgx connection pool.     *)
(*                                                                         *)
(* The database and the pgx driver are the environment.  They are modelled *)
(* by their contract: a statement sent on a transaction changes only the   *)
(* transaction's own writes; COMMIT installs the writes or fails and       *)
(* installs nothing; ROLLBACK, whether it succeeds or fails, discards the  *)
(* writes (pgx closes the connection of a failed rollback and the server   *)
(* aborts its transaction); every call made with a cancelled context fails *)
(* before it reaches the server.  In specification Spec the client is      *)
(* connected (its pool is set) and one caller issues its calls one after   *)
(* the other.                                                              *)
(*                                                                         *)
(* The other specifications each follow one part of the package, with the  *)
(* variables of the other parts left at rest: SpecTx two callers of ExecTx *)
(* inserting the same unique key, SpecBatch one ExecBatch, SpecClient the  *)
(* life of a Client from NewClient on, SpecLoad LoadMigrationsFromPath on  *)
(* a directory, SpecRound the caller of Spec on a database to which every  *)
(* version has been applied, SpecConc two managers calling Migrate or      *)
(* ApplyMigration on one database, SpecConcRb two managers calling         *)
(* RollbackLastMigration on one database.                                  *)
(***************************************************************************)
EXTENDS Integers, Sequences, FiniteSets, TLC

(***************************************************************************)
(* Bounds of the model.                                                    *)
(***************************************************************************)
MaxVersion == 2
MaxLen == 2
MaxCalls == 2

Versions == 1..MaxVersion
Descriptions == {"m"}

\* type Migration struct: Version and Description.  The SQL body of a
\* migration is identified by its version (schema below counts committed
\* bodies per version); Timestamp is never read by the manager.
Migrations == [Version : Versions, Description : Descriptions]

\* the slices a caller can pass to Migrate
MigrationSlices == UNION {[1..n -> Migrations] : n \in 0..MaxLen}

(***************************************************************************)
(* Go error values.  An error is the chain of its %w wrappers, outermost   *)
(* first; nil is the empty chain.  A frame keeps the format string, the    *)
(* %d argument, and the errors formatted with %v (text only, not           *)
(* unwrappable).                                                           *)
(***************************************************************************)
NoNum == 0 - 1
Nil == <<>>
Frame(msg, n) == [msg |-> msg, n |-> n, v |-> <<>>]
\* an error produced by the driver or the server
DriverError(text) == <<Frame(text, NoNum)>>
\* fmt.Errorf("msg: %w", err) and fmt.Errorf("msg %d: %w", n, err)
ErrorfW(msg, n, err) == <<Frame(msg, n)>> \o err
\* fmt.Errorf("msg: %v, msg: %v", e1, e2)
ErrorfVV(msg, e1, e2) == <<[msg |-> msg, n |-> NoNum, v |-> <<e1, e2>>]>>

CtxCanceled == DriverError("context canceled")
PgError == DriverError("pg error")
UniqueViolation == DriverError("duplicate key value violates unique constraint")
UndefinedTable == DriverError("relation \"migrations\" does not exist")

(***************************************************************************)
(* The database: whether the ledger table exists, its rows, and for each   *)
(* version how many times its migration body is in the committed schema.   *)
(***************************************************************************)
EmptyDb == [tableExists |-> FALSE, ledger |-> {}, schema |-> [v \in Versions |-> 0]]

LedgerVersions(d) == {r.version : r \in d.ledger}

\* the uncommitted writes of a transaction: body executions per version
\* (negative for a rollback statement), inserted ledger rows, and versions
\* whose ledger row is deleted
NoWrites == [schema |-> [v \in Versions |-> 0], ins |-> {}, del |-> {}]

\* database d with writes w installed
Install(d, w) ==
    [d EXCEPT !.schema = [v \in Versions |-> d.schema[v] + w.schema[v]],
              !.ledger = {r \in d.ledger : r.version \notin w.del} \cup w.ins]

VARIABLES
    db,         \* committed state of the database
    tx,         \* the pgx.Tx of the running ExecTx: open, aborted, writes
    held,       \* pooled connections checked out by ExecTx
    ctxDone,    \* the ctx of the running call is cancelled
    pc,         \* position of the caller
    op,         \* operation of the running (or last) top-level call
    migrations, \* argument of Migrate
    migration,  \* argument of ApplyMigration
    i,          \* index of the range loop in Migrate
    applied,    \* local variable applied of Migrate
    fnErr,      \* error returned by the work function
    txRet,      \* error returned by ExecTx (and so by ApplyMigration)
    ret,        \* error returned by the top-level call
    callNo,     \* number of top-level calls started; also the clock of time.Now()
    h,          \* observations of the run used by the properties
    rollbacks,  \* argument of RollbackLastMigration: the versions it maps to SQL
    lastVersion \* local variable lastVersion of RollbackLastMigration

\* the variables of the sequential caller
seqVars == <<db, tx, held, ctxDone, pc, op, migrations, migration, i, applied,
             fnErr, txRet, ret, callNo, h, rollbacks, lastVersion>>

\* the variables RollbackLastMigration adds to those of Migrate
rbVars == <<rollbacks, lastVersion>>

VARIABLES
    pool,        \* Client.pool: NilPool or the index in pools of a pool
    pools,       \* the pools pgxpool.NewWithConfig has made: "open" or "closed"
    outcome      \* how the last call on the client ended

clientVars == <<pool, pools, outcome>>

\* a Client whose lifecycle is not followed
NilPool == 0
ClientParked == pool = NilPool /\ pools = <<>> /\ outcome = "none"

VARIABLES
    users,       \* the committed rows of test_users
    wk           \* per concurrent caller of ExecTx: its position, context,
                 \* transaction and results

txVars == <<users, wk>>

\* no concurrent caller
TxParked == users = {} /\ wk = <<>>

VARIABLES
    queries,     \* the argument of ExecBatch
    visible,     \* the statements whose effects are in the database
    bpc,         \* position in ExecBatch
    bi,          \* the loop variable i of ExecBatch
    bret,        \* what ExecBatch returned
    served       \* what the server did with the batch

batchVars == <<queries, visible, bpc, bi, bret, served>>

\* no batch
BatchParked ==
    /\ queries = <<>> /\ visible = {} /\ bpc = "none" /\ bi = 0
    /\ bret = Nil /\ served = <<>>

VARIABLES
    entries,     \* the directory read by LoadMigrationsFromPath
    loaded,      \* its slice migrations
    lpc,         \* position in LoadMigrationsFromPath
    li,          \* the index of its range loop
    lret         \* the error it returned

loadVars == <<entries, loaded, lpc, li, lret>>

\* no directory
LoadParked ==
    /\ entries = <<>> /\ loaded = <<>> /\ lpc = "none" /\ li = 0 /\ lret = Nil

\* the variables outside each specification
notSeq == <<clientVars, txVars, batchVars, loadVars>>
notClient == <<seqVars, txVars, batchVars, loadVars>>
notTx == <<seqVars, clientVars, batchVars, loadVars>>
notBatch == <<seqVars, clientVars, txVars, loadVars>>
notLoad == <<seqVars, clientVars, txVars, batchVars>>

vars == <<seqVars, notSeq>>

NoTx == [open |-> FALSE, aborted |-> FALSE, w |-> NoWrites]
NoMigration == [Version |-> 0, Description |-> ""]

\* observations: reset at the start of each top-level call (call part) and
\* at the start of each ExecTx (tx part)
NoObs == [db0 |-> EmptyDb,        \* database when the top-level call started
          executed |-> <<>>,      \* loop indices whose body was sent, in order
          failedAt |-> 0,         \* loop index whose ApplyMigration failed
          txDb0 |-> EmptyDb,      \* database when ExecTx was entered
          work |-> NoWrites,      \* writes of the transaction when the work function returned
          began |-> FALSE,        \* pool.Begin succeeded
          nFn |-> 0,              \* invocations of the work function
          nRollback |-> 0,        \* tx.Rollback attempts
          nCommit |-> 0,          \* tx.Commit attempts
          rbErr |-> Nil,          \* error of tx.Rollback
          commitErr |-> Nil,      \* error of tx.Commit
          beginErr |-> Nil,       \* error of pool.Begin
          cancelledInFn |-> FALSE,\* ctx was cancelled while the work ran
          nInit |-> 0,            \* CREATE TABLE statements sent
          nGet |-> 0,             \* ledger scans sent
          rolled |-> <<>>,        \* versions whose rollback SQL was sent, in order
          deleted |-> <<>>,       \* versions whose DELETE was sent, in order
          again |-> FALSE,        \* this call is Migrate, right after a Migrate
                                  \* with the same slice
          prevNil |-> FALSE,      \* the previous top-level call returned nil
          prevRolled |-> 0]       \* the version the previous call rolled back,
                                  \* when it was a RollbackLastMigration
                                  \* that returned nil

\* a manager that has made no call yet
CallerInit ==
    /\ tx = NoTx
    /\ held = 0
    /\ ctxDone = FALSE
    /\ pc = "idle"
    /\ op = ""
    /\ migrations = <<>>
    /\ migration = NoMigration
    /\ i = 0
    /\ applied = <<>>
    /\ fnErr = Nil
    /\ txRet = Nil
    /\ ret = Nil
    /\ callNo = 0
    /\ h = NoObs
    /\ rollbacks = {}
    /\ lastVersion = 0

SeqInit ==
    /\ db = EmptyDb
    /\ CallerInit

Init ==
    /\ SeqInit
    /\ ClientParked
    /\ TxParked
    /\ BatchParked
    /\ LoadParked

(***************************************************************************)
(* The environment: outcomes of the calls into pgx.                        *)
(***************************************************************************)
ErrTxClosed == DriverError("tx is closed")
ErrTxCommitRollback == DriverError("commit unexpectedly resulted in rollback")

\* errors a call on the pool can return; Nil is success
PoolOutcomes(done) == IF done THEN {CtxCanceled} ELSE {Nil, PgError}

\* errors a statement on transaction t can return
TxOutcomes(done, t) ==
    IF ~t.open THEN {ErrTxClosed}
    ELSE IF done THEN {CtxCanceled}
    ELSE IF t.aborted THEN {PgError}
    ELSE {Nil, PgError}

\* a statement that failed on the server leaves its transaction aborted
AbortedBy(t, e) == [t EXCEPT !.aborted = t.aborted \/ (e # Nil /\ e # CtxCanceled)]

\* effect of a migration body, on a database state or on a transaction's
\* writes
RunBody(d, m) == [d EXCEPT !.schema[m.Version] = @ + 1]

\* the ledger row of INSERT INTO migrations (version, description, applied_at)
LedgerRow(m, now) == [version |-> m.Version, description |-> m.Description, applied_at |-> now]

InsertRow(w, m, now) == [w EXCEPT !.ins = @ \cup {LedgerRow(m, now)}]

\* errors of the INSERT on transaction t: the table may be missing and
\* version is UNIQUE
InsertOutcomes(done, t, d, m) ==
    IF ~t.open \/ done \/ t.aborted THEN TxOutcomes(done, t)
    ELSE IF ~d.tableExists THEN {UndefinedTable}
    ELSE IF m.Version \in LedgerVersions(Install(d, t.w)) THEN {UniqueViolation, PgError}
    ELSE {Nil, PgError}

\* a loop that never leaves its first element
RangeIndexFirst(ms, k) == 1

(***************************************************************************)
(* Decisions of the code.                                                  *)
(***************************************************************************)
\* a loop that walks the slice from its end
RangeIndexReversed(ms, k) == Len(ms) + 1 - k

\* Migrate: "for _, migration := range migrations" visits index k at its
\* k-th iteration
RangeIndex(ms, k) == k

\* a loop that never skips
IsPendingAlways(appl, m) == TRUE

\* Migrate: "if _, exists := applied[migration.Version]; exists { continue }"
IsPending(appl, m) == m.Version \notin DOMAIN appl

\* a scan loop that never fills the result
AppliedMapNone(d) == <<>>

\* a result that holds every version ever applied, rolled back or not
AppliedMapEvery(d) == [v \in Versions |-> 0]

\* GetAppliedMigrations: result[version] = appliedAt for every row
AppliedMap(d) ==
    [v \in LedgerVersions(d) |-> (CHOOSE r \in d.ledger : r.version = v).applied_at]

\* the body executed on the pool (client.Exec) instead of the transaction
ExecMigrationSQLOnPool(d, w, m) == <<RunBody(d, m), w>>

\* ApplyMigration: the body is executed on the transaction: the pair
\* <<committed database, writes of the transaction>> after
\* tx.Exec(ctx, migration.SQL)
ExecMigrationSQL(d, w, m) == <<d, RunBody(w, m)>>

\* the work function entered whatever pool.Begin returned
AfterBeginAlways(err) == "fn.exec"

\* ExecTx after pool.Begin: "if err != nil { return ... }"
AfterBegin(err) == IF err # Nil THEN "ApplyMigration.return" ELSE "fn.exec"

\* a failed work function returned without a rollback
AfterFnNoRollback(err) == IF err # Nil THEN "ApplyMigration.return" ELSE "ExecTx.commit"

\* ExecTx after fn(tx): "if err := fn(tx); err != nil { tx.Rollback ... }"
AfterFn(err) == IF err # Nil THEN "ExecTx.rollback" ELSE "ExecTx.commit"

\* a failed commit followed by a rollback
AfterCommitRollback(err) == IF err # Nil THEN "ExecTx.rollback" ELSE "ApplyMigration.return"

\* ExecTx after tx.Commit: both branches return
AfterCommit(err) == "ApplyMigration.return"

\* the rollback's error dropped
RollbackReturnWorkOnly(err, rbErr) == err

\* ExecTx: what is returned when fn failed with err and Rollback gave rbErr
RollbackReturn(err, rbErr) ==
    IF rbErr # Nil
    THEN ErrorfVV("tx failed: %v, rollback failed: %v", err, rbErr)
    ELSE err

\* the commit's error dropped
CommitReturnNil(err) == Nil

\* ExecTx: what is returned after tx.Commit gave err
CommitReturn(err) ==
    IF err # Nil THEN ErrorfW("failed to commit transaction: %w", NoNum, err) ELSE Nil

\* ExecTx: what is returned when pool.Begin gave err
BeginReturn(err) == ErrorfW("failed to begin transaction: %w", NoNum, err)

\* the error of ApplyMigration dropped
MigrateReturnNil(err) == Nil

\* Migrate after ApplyMigration: "if err != nil { return err }"
MigrateReturn(err) == err

(***************************************************************************)
(* Top-level calls.                                                        *)
(***************************************************************************)
ExecutedVersions(ms, ex) == [k \in 1..Len(ex) |-> ms[ex[k]].Version]

StartCall(name, ms) ==
    /\ pc = "idle"
    /\ callNo < MaxCalls
    /\ callNo' = callNo + 1
    /\ op' = name
    /\ migrations' = ms
    /\ ctxDone' = FALSE
    /\ fnErr' = Nil
    /\ txRet' = Nil
    /\ ret' = Nil
    /\ applied' = <<>>
    /\ h' = [NoObs EXCEPT !.db0 = db, !.txDb0 = db,
                          !.again = (name = "Migrate" /\ op = "Migrate" /\ ms = migrations),
                          !.prevNil = (callNo > 0 /\ ret = Nil),
                          !.prevRolled = IF op = "RollbackLastMigration" /\ ret = Nil
                                         THEN lastVersion ELSE 0]
    /\ lastVersion' = 0
    /\ UNCHANGED <<db, tx, held>>
    /\ UNCHANGED notSeq

\* m.Migrate(ctx, migrations)
CallMigrate ==
    \E ms \in MigrationSlices :
        /\ StartCall("Migrate", ms)
        /\ rollbacks' = {}
        /\ migration' = NoMigration
        /\ i' = 1
        /\ pc' = "Migrate.init"

\* m.InitMigrationTable(ctx), called directly
CallInitMigrationTable ==
    /\ StartCall("InitMigrationTable", <<>>)
    /\ rollbacks' = {}
    /\ migration' = NoMigration
    /\ i' = 0
    /\ pc' = "Migrate.init"

\* m.RollbackLastMigration(ctx, rollbacks): rollbacks maps the versions of rb
\* to their rollback SQL
CallRollbackLastMigration ==
    \E rb \in SUBSET Versions :
        /\ StartCall("RollbackLastMigration", <<>>)
        /\ rollbacks' = rb
        /\ migration' = NoMigration
        /\ i' = 0
        /\ pc' = "Rollback.query"

\* m.ApplyMigration(ctx, migration), called directly
CallApplyMigration ==
    \E m \in Migrations :
        /\ StartCall("ApplyMigration", <<m>>)
        /\ rollbacks' = {}
        /\ migration' = m
        /\ i' = 1
        /\ pc' = "ExecTx.begin"

\* the caller's context is cancelled (or its deadline passes) during a call
Cancel ==
    /\ pc # "idle"
    /\ ~ctxDone
    /\ ctxDone' = TRUE
    /\ h' = [h EXCEPT !.cancelledInFn = @ \/ pc \in {"fn.exec", "fn.insert", "fn.delete"}]
    /\ UNCHANGED <<db, tx, held, pc, op, migrations, migration, i, applied,
                   fnErr, txRet, ret, callNo>>
    /\ UNCHANGED rbVars
    /\ UNCHANGED notSeq


(***************************************************************************)
(* Migrate.                                                                *)
(***************************************************************************)
\* InitMigrationTable: CREATE TABLE IF NOT EXISTS migrations, sent with
\* client.Exec (outside any transaction)
InitMigrationTable ==
    /\ pc = "Migrate.init"
    /\ \E e \in PoolOutcomes(ctxDone) :
        IF e = Nil
        THEN /\ db' = [db EXCEPT !.tableExists = TRUE]
             /\ pc' = IF op = "Migrate" THEN "Migrate.get" ELSE "idle"
             /\ ret' = Nil
        ELSE /\ db' = db
             /\ pc' = "idle"
             /\ ret' = ErrorfW("error creating migrations table: %w", NoNum, e)
    /\ h' = [h EXCEPT !.nInit = @ + 1]
    /\ UNCHANGED <<tx, held, ctxDone, op, migrations, migration, i, applied,
                   fnErr, txRet, callNo>>
    /\ UNCHANGED rbVars
    /\ UNCHANGED notSeq

\* the three places where GetAppliedMigrations returns an error; rows.Scan
\* runs only when the ledger has a row
GetAppliedFailures(d) ==
    {"error querying migrations: %w", "error iterating migrations: %w"}
        \cup (IF d.ledger # {} THEN {"error scanning migration: %w"} ELSE {})

\* GetAppliedMigrations: SELECT version, applied_at FROM migrations
GetAppliedMigrations ==
    /\ pc = "Migrate.get"
    /\ \/ /\ ~ctxDone
          /\ db.tableExists
          /\ applied' = AppliedMap(db)
          /\ pc' = "Migrate.loop"
          /\ ret' = ret
       \/ \E e \in (PoolOutcomes(ctxDone) \cup (IF db.tableExists THEN {} ELSE {UndefinedTable})) \ {Nil} :
          \E msg \in GetAppliedFailures(db) :
            /\ applied' = applied
            /\ pc' = "idle"
            /\ ret' = ErrorfW(msg, NoNum, e)
    /\ h' = [h EXCEPT !.nGet = @ + 1]
    /\ UNCHANGED <<db, tx, held, ctxDone, op, migrations, migration, i,
                   fnErr, txRet, callNo>>
    /\ UNCHANGED rbVars
    /\ UNCHANGED notSeq

\* one iteration of "for _, migration := range migrations": skip an applied
\* version, or call ApplyMigration; after the last element return nil
MigrateLoop ==
    /\ pc = "Migrate.loop"
    /\ IF i > Len(migrations)
       THEN /\ pc' = "idle"
            /\ ret' = Nil
            /\ UNCHANGED <<migration, i>>
       ELSE LET m == migrations[RangeIndex(migrations, i)] IN
            IF IsPending(applied, m)
            THEN /\ migration' = m
                 /\ pc' = "ExecTx.begin"
                 /\ UNCHANGED <<ret, i>>
            ELSE /\ i' = i + 1
                 /\ UNCHANGED <<pc, ret, migration>>
    /\ UNCHANGED <<db, tx, held, ctxDone, op, migrations, applied,
                   fnErr, txRet, callNo, h>>
    /\ UNCHANGED rbVars
    /\ UNCHANGED notSeq

(***************************************************************************)
(* ExecTx, with the work function of ApplyMigration.                       *)
(***************************************************************************)
\* tx, err := c.pool.Begin(ctx)
ExecTxBegin ==
    /\ pc = "ExecTx.begin"
    /\ \E e \in PoolOutcomes(ctxDone) :
        /\ tx' = IF e = Nil THEN [open |-> TRUE, aborted |-> FALSE, w |-> NoWrites] ELSE NoTx
        /\ held' = IF e = Nil THEN held + 1 ELSE held
        /\ txRet' = IF e = Nil THEN Nil ELSE BeginReturn(e)
        /\ pc' = AfterBegin(e)
        /\ h' = [h EXCEPT !.txDb0 = db, !.work = NoWrites, !.began = (e = Nil), !.nFn = 0,
                          !.nRollback = 0, !.nCommit = 0, !.rbErr = Nil,
                          !.commitErr = Nil, !.beginErr = e, !.cancelledInFn = FALSE]
    /\ fnErr' = Nil
    /\ UNCHANGED <<db, ctxDone, op, migrations, migration, i, applied, ret, callNo>>
    /\ UNCHANGED rbVars
    /\ UNCHANGED notSeq

\* the work function of ApplyMigration, first statement:
\* tx.Exec(ctx, migration.SQL)
FnExec ==
    /\ pc = "fn.exec"
    /\ op \in {"Migrate", "ApplyMigration"}
    /\ \E e \in TxOutcomes(ctxDone, tx) :
        /\ IF e = Nil
           THEN /\ db' = ExecMigrationSQL(db, tx.w, migration)[1]
                /\ tx' = [tx EXCEPT !.w = ExecMigrationSQL(db, tx.w, migration)[2]]
                /\ fnErr' = Nil
                /\ pc' = "fn.insert"
           ELSE /\ db' = db
                /\ tx' = AbortedBy(tx, e)
                /\ fnErr' = ErrorfW("error applying migration %d: %w", migration.Version, e)
                /\ pc' = AfterFn(fnErr')
        /\ h' = [h EXCEPT !.nFn = @ + 1,
                          !.executed = Append(@, RangeIndex(migrations, i)),
                          !.work = tx'.w]
    /\ UNCHANGED <<held, ctxDone, op, migrations, migration, i, applied, txRet, ret, callNo>>
    /\ UNCHANGED rbVars
    /\ UNCHANGED notSeq

\* the work function of ApplyMigration, second statement:
\* tx.Exec(ctx, INSERT INTO migrations ..., version, description, time.Now())
FnInsert ==
    /\ pc = "fn.insert"
    /\ \E e \in InsertOutcomes(ctxDone, tx, db, migration) :
        /\ IF e = Nil
           THEN /\ tx' = [tx EXCEPT !.w = InsertRow(@, migration, callNo)]
                /\ fnErr' = Nil
           ELSE /\ tx' = AbortedBy(tx, e)
                /\ fnErr' = ErrorfW("error registering migration %d: %w", migration.Version, e)
        /\ pc' = AfterFn(fnErr')
        /\ h' = [h EXCEPT !.work = tx'.w]
    /\ UNCHANGED <<db, held, ctxDone, op, migrations, migration, i, applied, txRet, ret, callNo>>
    /\ UNCHANGED rbVars
    /\ UNCHANGED notSeq

\* tx.Rollback(ctx): the writes are dropped, the transaction is closed and
\* its connection leaves the caller whether or not the ROLLBACK got through
ExecTxRollback ==
    /\ pc = "ExecTx.rollback"
    /\ \E e \in (IF ~tx.open THEN {ErrTxClosed} ELSE PoolOutcomes(ctxDone)) :
        /\ txRet' = RollbackReturn(fnErr, e)
        /\ h' = [h EXCEPT !.nRollback = @ + 1, !.rbErr = e]
    /\ tx' = NoTx
    /\ held' = IF tx.open THEN held - 1 ELSE held
    /\ pc' = "ApplyMigration.return"
    /\ UNCHANGED <<db, ctxDone, op, migrations, migration, i, applied, fnErr, ret, callNo>>
    /\ UNCHANGED rbVars
    /\ UNCHANGED notSeq

\* errors of COMMIT: on an aborted transaction the server answers ROLLBACK
CommitOutcomes(done, t) ==
    IF ~t.open THEN {ErrTxClosed}
    ELSE IF done THEN {CtxCanceled}
    ELSE IF t.aborted THEN {ErrTxCommitRollback}
    ELSE {Nil, PgError}

\* tx.Commit(ctx): installs the writes, or fails and installs nothing;
\* the transaction is closed either way
ExecTxCommit ==
    /\ pc = "ExecTx.commit"
    /\ \E e \in CommitOutcomes(ctxDone, tx) :
        /\ db' = IF e = Nil THEN Install(db, tx.w) ELSE db
        /\ txRet' = CommitReturn(e)
        /\ pc' = AfterCommit(e)
        /\ h' = [h EXCEPT !.nCommit = @ + 1, !.commitErr = e]
    /\ tx' = NoTx
    /\ held' = IF tx.open THEN held - 1 ELSE held
    /\ UNCHANGED <<ctxDone, op, migrations, migration, i, applied, fnErr, ret, callNo>>
    /\ UNCHANGED rbVars
    /\ UNCHANGED notSeq

\* ApplyMigration returns what ExecTx returned; a direct call is over, and
\* Migrate returns the error or goes on with the next element
ApplyMigrationReturn ==
    /\ pc = "ApplyMigration.return"
    /\ op \in {"Migrate", "ApplyMigration"}
    /\ IF op = "ApplyMigration"
       THEN /\ ret' = txRet
            /\ pc' = "idle"
            /\ UNCHANGED <<i, h>>
       ELSE IF txRet # Nil
            THEN /\ ret' = MigrateReturn(txRet)
                 /\ pc' = "idle"
                 /\ h' = [h EXCEPT !.failedAt = RangeIndex(migrations, i)]
                 /\ i' = i
            ELSE /\ i' = i + 1
                 /\ pc' = "Migrate.loop"
                 /\ UNCHANGED <<ret, h>>
    /\ UNCHANGED <<db, tx, held, ctxDone, op, migrations, migration, applied,
                   fnErr, txRet, callNo>>
    /\ UNCHANGED rbVars
    /\ UNCHANGED notSeq

(***************************************************************************)
(* RollbackLastMigration, with its work function run by ExecTx.            *)
(***************************************************************************)
ErrNoRows == DriverError("no rows in result set")

\* the first row in ascending order
LastRowAscending(d) == CHOOSE v \in LedgerVersions(d) : \A u \in LedgerVersions(d) : v <= u

\* the highest version of the ledger: ORDER BY version DESC LIMIT 1
LastRow(d) == CHOOSE v \in LedgerVersions(d) : \A u \in LedgerVersions(d) : u <= v

\* errors of QueryRow(...).Scan(&lastVersion, &lastAppliedAt)
LastRowOutcomes(done, d) ==
    IF done THEN {CtxCanceled}
    ELSE IF ~d.tableExists THEN {UndefinedTable}
    ELSE IF d.ledger = {} THEN {ErrNoRows, PgError}
    ELSE {Nil, PgError}

\* "rollbackSQL, exists := rollbacks[lastVersion]"
HasRollback(rb, v) == v \in rb

\* the cause of the read's failure formatted with %v
QueryReturnText(err) == ErrorfVV("error getting last migration: %v", err, Nil)

\* RollbackLastMigration: what is returned when the read of the last row
\* gave err
QueryReturn(err) == ErrorfW("error getting last migration: %w", NoNum, err)

\* the lookup's result ignored
AfterLookupAlways(exists) == "ExecTx.begin"

\* RollbackLastMigration after the lookup: "if !exists { return ... }"
AfterLookup(exists) == IF exists THEN "ExecTx.begin" ELSE "idle"

\* RollbackLastMigration: what is returned when version v has no rollback
NoRollbackReturn(v) == <<Frame("no rollback for migration %d", v)>>

\* effect of the rollback SQL of version v on a transaction's writes
RunRollback(w, v) == [w EXCEPT !.schema[v] = @ - 1]

\* a DELETE without its WHERE clause
DeleteEveryRow(w, v) == [w EXCEPT !.del = Versions]

\* effect of DELETE FROM migrations WHERE version = v on a transaction's writes
DeleteRow(w, v) == [w EXCEPT !.del = @ \cup {v}]

\* RollbackLastMigration up to ExecTx: read the last version, look its
\* rollback SQL up
RollbackQuery ==
    /\ pc = "Rollback.query"
    /\ \E e \in LastRowOutcomes(ctxDone, db) :
        IF e # Nil
        THEN /\ ret' = QueryReturn(e)
             /\ pc' = "idle"
             /\ lastVersion' = lastVersion
        ELSE /\ lastVersion' = LastRow(db)
             /\ pc' = AfterLookup(HasRollback(rollbacks, lastVersion'))
             /\ ret' = IF HasRollback(rollbacks, lastVersion')
                       THEN ret
                       ELSE NoRollbackReturn(lastVersion')
    /\ UNCHANGED <<db, tx, held, ctxDone, op, migrations, migration, i, applied,
                   fnErr, txRet, callNo, h, rollbacks>>
    /\ UNCHANGED notSeq

\* the work function of RollbackLastMigration, first statement:
\* tx.Exec(ctx, rollbackSQL)
FnRollbackSQL ==
    /\ pc = "fn.exec"
    /\ op = "RollbackLastMigration"
    /\ \E e \in TxOutcomes(ctxDone, tx) :
        /\ IF e = Nil
           THEN /\ tx' = [tx EXCEPT !.w = RunRollback(@, lastVersion)]
                /\ fnErr' = Nil
                /\ pc' = "fn.delete"
           ELSE /\ tx' = AbortedBy(tx, e)
                /\ fnErr' = ErrorfW("error applying rollback %d: %w", lastVersion, e)
                /\ pc' = AfterFn(fnErr')
        /\ h' = [h EXCEPT !.nFn = @ + 1,
                          !.rolled = Append(@, lastVersion),
                          !.work = tx'.w]
    /\ UNCHANGED <<db, held, ctxDone, op, migrations, migration, i, applied, txRet, ret, callNo>>
    /\ UNCHANGED rbVars
    /\ UNCHANGED notSeq

\* the work function of RollbackLastMigration, second statement:
\* tx.Exec(ctx, DELETE FROM migrations WHERE version = $1, lastVersion)
FnDelete ==
    /\ pc = "fn.delete"
    /\ \E e \in TxOutcomes(ctxDone, tx) :
        /\ IF e = Nil
           THEN /\ tx' = [tx EXCEPT !.w = DeleteRow(@, lastVersion)]
                /\ fnErr' = Nil
           ELSE /\ tx' = AbortedBy(tx, e)
                /\ fnErr' = ErrorfW("error deleting migration record %d: %w", lastVersion, e)
        /\ pc' = AfterFn(fnErr')
        /\ h' = [h EXCEPT !.deleted = Append(@, lastVersion), !.work = tx'.w]
    /\ UNCHANGED <<db, held, ctxDone, op, migrations, migration, i, applied, txRet, ret, callNo>>
    /\ UNCHANGED rbVars
    /\ UNCHANGED notSeq

\* RollbackLastMigration returns what ExecTx returned
RollbackLastMigrationReturn ==
    /\ pc = "ApplyMigration.return"
    /\ op = "RollbackLastMigration"
    /\ ret' = txRet
    /\ pc' = "idle"
    /\ UNCHANGED <<db, tx, held, ctxDone, op, migrations, migration, i, applied,
                   fnErr, txRet, callNo, h>>
    /\ UNCHANGED rbVars
    /\ UNCHANGED notSeq

Next ==
    \/ CallMigrate
    \/ CallApplyMigration
    \/ CallInitMigrationTable
    \/ CallRollbackLastMigration
    \/ RollbackQuery
    \/ FnRollbackSQL
    \/ FnDelete
    \/ RollbackLastMigrationReturn
    \/ Cancel
    \/ InitMigrationTable
    \/ GetAppliedMigrations
    \/ MigrateLoop
    \/ ExecTxBegin
    \/ FnExec
    \/ FnInsert
    \/ ExecTxRollback
    \/ ExecTxCommit
    \/ ApplyMigrationReturn

Spec == Init /\ [][Next]_vars

(***************************************************************************)
(* Two callers of ExecTx on one pool, each inserting a row of test_users   *)
(* with the same email (email TEXT NOT NULL UNIQUE): specification SpecTx. *)
(* The callers' steps interleave in any order, one after the other         *)
(* included.                                                               *)
(***************************************************************************)
Workers == {"Rollback User", "Another User"}

Key == "rollback@example.com"

\* the row a caller's work function inserts
UserRow(p) == [name |-> p, email |-> Key]

Emails(rows) == {r.email : r \in rows}

NewWorker ==
    [pc |-> "ExecTx.begin", done |-> FALSE, tx |-> NoTx, fnErr |-> Nil,
     txRet |-> Nil, ret |-> Nil,
     answered |-> FALSE, \* the server answered this caller's INSERT
     fault |-> FALSE]    \* a call of this caller met a driver fault or its
                         \* context was cancelled

TxInit ==
    /\ users = {}
    /\ wk = [p \in Workers |-> NewWorker]

InitTx ==
    /\ TxInit
    /\ SeqInit
    /\ ClientParked
    /\ BatchParked
    /\ LoadParked

\* another caller's open transaction has inserted the key and not finished:
\* the server makes the INSERT wait for it
Blocked(p) ==
    \E q \in Workers \ {p} :
        /\ wk[q].tx.open
        /\ ~wk[q].tx.aborted
        /\ Key \in Emails(wk[q].tx.w.ins)

\* a table without the UNIQUE constraint
UserInsertOutcomesNoUnique(done, t, rows, blocked) == TxOutcomes(done, t)

\* errors of INSERT INTO test_users on transaction t
UserInsertOutcomes(done, t, rows, blocked) ==
    IF ~t.open \/ done \/ t.aborted THEN TxOutcomes(done, t)
    ELSE IF blocked THEN {PgError}
    ELSE IF Key \in Emails(rows) THEN {UniqueViolation, PgError}
    ELSE {Nil, PgError}

IsFault(e) == e \notin {Nil, UniqueViolation}

\* the context of caller p is cancelled during its ExecTx
WorkerCancel(p) ==
    /\ wk[p].pc \notin {"ApplyMigration.return", "done"}
    /\ ~wk[p].done
    /\ wk' = [wk EXCEPT ![p].done = TRUE, ![p].fault = TRUE]
    /\ UNCHANGED users
    /\ UNCHANGED notTx

\* tx, err := c.pool.Begin(ctx)
WorkerBegin(p) ==
    /\ wk[p].pc = "ExecTx.begin"
    /\ \E e \in PoolOutcomes(wk[p].done) :
        wk' = [wk EXCEPT ![p].tx = IF e = Nil
                                   THEN [open |-> TRUE, aborted |-> FALSE, w |-> NoWrites]
                                   ELSE NoTx,
                         ![p].txRet = IF e = Nil THEN Nil ELSE BeginReturn(e),
                         ![p].pc = AfterBegin(e),
                         ![p].fault = @ \/ IsFault(e)]
    /\ UNCHANGED users
    /\ UNCHANGED notTx

\* the work function: _, err := tx.Exec(ctx, INSERT INTO test_users ...);
\* return err
WorkerInsert(p) ==
    /\ wk[p].pc = "fn.exec"
    /\ \E e \in UserInsertOutcomes(wk[p].done, wk[p].tx, users, Blocked(p)) :
        wk' = [wk EXCEPT ![p].tx = IF e = Nil
                                   THEN [@ EXCEPT !.w.ins = @ \cup {UserRow(p)}]
                                   ELSE AbortedBy(@, e),
                         ![p].fnErr = e,
                         ![p].answered = ~IsFault(e),
                         ![p].pc = AfterFn(e),
                         ![p].fault = @ \/ IsFault(e)]
    /\ UNCHANGED users
    /\ UNCHANGED notTx

\* rbErr := tx.Rollback(ctx)
WorkerRollback(p) ==
    /\ wk[p].pc = "ExecTx.rollback"
    /\ \E e \in (IF ~wk[p].tx.open THEN {ErrTxClosed} ELSE PoolOutcomes(wk[p].done)) :
        wk' = [wk EXCEPT ![p].txRet = RollbackReturn(wk[p].fnErr, e),
                         ![p].tx = NoTx,
                         ![p].pc = "ApplyMigration.return",
                         ![p].fault = @ \/ IsFault(e)]
    /\ UNCHANGED users
    /\ UNCHANGED notTx

\* err := tx.Commit(ctx)
WorkerCommit(p) ==
    /\ wk[p].pc = "ExecTx.commit"
    /\ \E e \in CommitOutcomes(wk[p].done, wk[p].tx) :
        /\ users' = IF e = Nil THEN users \cup wk[p].tx.w.ins ELSE users
        /\ wk' = [wk EXCEPT ![p].txRet = CommitReturn(e),
                            ![p].tx = NoTx,
                            ![p].pc = AfterCommit(e),
                            ![p].fault = @ \/ IsFault(e)]
    /\ UNCHANGED notTx

\* ExecTx returns to its caller
WorkerReturn(p) ==
    /\ wk[p].pc = "ApplyMigration.return"
    /\ wk' = [wk EXCEPT ![p].ret = wk[p].txRet, ![p].pc = "done"]
    /\ UNCHANGED users
    /\ UNCHANGED notTx

NextTx ==
    \/ \E p \in Workers : WorkerCancel(p)
    \/ \E p \in Workers : WorkerBegin(p)
    \/ \E p \in Workers : WorkerInsert(p)
    \/ \E p \in Workers : WorkerRollback(p)
    \/ \E p \in Workers : WorkerCommit(p)
    \/ \E p \in Workers : WorkerReturn(p)

SpecTx == InitTx /\ [][NextTx]_vars

(***************************************************************************)
(* ExecBatch: specification SpecBatch.  A statement is known by whether    *)
(* the server rejects it; statements are indexed from 0 as in the code.    *)
(***************************************************************************)
MaxBatch == 3

\* the slices of at most MaxBatch statements: TRUE marks a statement the
\* server rejects
QuerySlices == UNION {[0..(n - 1) -> BOOLEAN] : n \in 0..MaxBatch}

\* batch.Len()
BatchLen(qs) == Cardinality(DOMAIN qs)

NotServed == [err |-> Nil, executed |-> {}, failed |-> NoNum]

BatchInit ==
    /\ queries = <<>>
    /\ visible = {}
    /\ bpc = "idle"
    /\ bi = 0
    /\ bret = Nil
    /\ served = NotServed

InitBatch ==
    /\ BatchInit
    /\ SeqInit
    /\ ClientParked
    /\ TxParked
    /\ LoadParked

\* the index of the first statement the server rejects, NoNum when none
FirstRejected(qs) ==
    IF \E k \in DOMAIN qs : qs[k]
    THEN CHOOSE k \in DOMAIN qs : qs[k] /\ \A j \in DOMAIN qs : qs[j] => k <= j
    ELSE NoNum

\* every statement in a transaction of its own
ServerRunAutocommit(qs) ==
    [err |-> Nil,
     executed |-> IF FirstRejected(qs) = NoNum THEN DOMAIN qs ELSE 0..FirstRejected(qs),
     failed |-> FirstRejected(qs),
     effects |-> IF FirstRejected(qs) = NoNum THEN DOMAIN qs ELSE 0..(FirstRejected(qs) - 1)]

\* the server on a batch sent by pool.SendBatch: the statements run in
\* order in one implicit transaction, which ends at the first rejected
\* statement and is then rolled back; the statements after it are skipped
ServerRun(qs) ==
    [err |-> Nil,
     executed |-> IF FirstRejected(qs) = NoNum THEN DOMAIN qs ELSE 0..FirstRejected(qs),
     failed |-> FirstRejected(qs),
     effects |-> IF FirstRejected(qs) = NoNum THEN DOMAIN qs ELSE {}]

\* the error of batchResults.Exec() for the statement of index k
ResultError(sv, k) ==
    IF sv.err # Nil THEN sv.err
    ELSE IF sv.failed # NoNum /\ k >= sv.failed THEN PgError
    ELSE Nil

\* c.ExecBatch(ctx, queries, args)
CallExecBatch ==
    /\ bpc = "idle"
    /\ \E qs \in QuerySlices : queries' = qs
    /\ bpc' = "send"
    /\ UNCHANGED <<visible, bi, bret, served>>
    /\ UNCHANGED notBatch

\* the loop that queues the statements, and
\* batchResults := c.pool.SendBatch(ctx, batch)
SendBatch ==
    /\ bpc = "send"
    /\ \E done \in BOOLEAN : \E e \in PoolOutcomes(done) :
        IF e # Nil
        THEN /\ served' = [NotServed EXCEPT !.err = e]
             /\ visible' = visible
        ELSE /\ served' = [k \in DOMAIN NotServed |-> ServerRun(queries)[k]]
             /\ visible' = visible \cup ServerRun(queries).effects
    /\ bi' = 0
    /\ bpc' = "results"
    /\ UNCHANGED <<queries, bret>>
    /\ UNCHANGED notBatch

\* one turn of "for i := range batch.Len()", and the return after the loop
BatchResultsExec ==
    /\ bpc = "results"
    /\ IF bi >= BatchLen(queries)
       THEN /\ bret' = Nil
            /\ bpc' = "done"
            /\ bi' = bi
       ELSE IF ResultError(served, bi) # Nil
            THEN /\ bret' = ErrorfW("error in batch query %d: %w", bi, ResultError(served, bi))
                 /\ bpc' = "done"
                 /\ bi' = bi
            ELSE /\ bi' = bi + 1
                 /\ UNCHANGED <<bret, bpc>>
    /\ UNCHANGED <<queries, visible, served>>
    /\ UNCHANGED notBatch

NextBatch ==
    \/ CallExecBatch
    \/ SendBatch
    \/ BatchResultsExec

SpecBatch == InitBatch /\ [][NextBatch]_vars

(***************************************************************************)
(* The life of a Client: specification SpecClient.  One caller makes any   *)
(* calls in any order from NewClient on.  A nil pointer dereference is a    *)
(* panic, which ends the run.                                              *)
(***************************************************************************)
MaxPools == 2

NoOutcome == [op |-> "", result |-> "none", err |-> Nil, prev |-> "",
              pool0 |-> NilPool, pools0 |-> <<>>]

ClientInit ==
    /\ pool = NilPool
    /\ pools = <<>>
    /\ outcome = NoOutcome

InitClient ==
    /\ ClientInit
    /\ SeqInit
    /\ TxParked
    /\ BatchParked
    /\ LoadParked

\* the record of a call that ended with result and err
Ended(name, result, err) ==
    [op |-> name, result |-> result, err |-> err, prev |-> outcome.op,
     pool0 |-> pool, pools0 |-> pools]

\* the run goes on: no call has panicked
Running == outcome.result # "panic"

\* how a call of a method of *pgxpool.Pool on pl ends: a nil pool is
\* dereferenced, a closed pool refuses, an open pool may succeed or fail
OnPool(pl, ps) ==
    IF pl = NilPool THEN {<<"panic", Nil>>}
    ELSE IF ps[pl] = "closed" THEN {<<"error", DriverError("closed pool")>>}
    ELSE {<<"nil", Nil>>, <<"error", PgError>>, <<"error", CtxCanceled>>}

\* a method of Client that calls c.pool without a check
Unguarded(name) ==
    /\ Running
    /\ \E r \in OnPool(pool, pools) : outcome' = Ended(name, r[1], r[2])
    /\ UNCHANGED <<pool, pools>>
    /\ UNCHANGED notClient

ClientExec == Unguarded("Exec")

ClientQueryRow == Unguarded("QueryRow")

ClientQueryRows == Unguarded("QueryRows")

ClientExecBatch == Unguarded("ExecBatch")

ClientExecTx == Unguarded("ExecTx")

\* Ping: "if c.pool == nil { return fmt.Errorf(...) }", then c.pool.Ping
ClientPing ==
    /\ Running
    /\ IF pool = NilPool
       THEN outcome' = Ended("Ping", "error", <<Frame("connection pool is not initialized", NoNum)>>)
       ELSE \E r \in OnPool(pool, pools) : outcome' = Ended("Ping", r[1], r[2])
    /\ UNCHANGED <<pool, pools>>
    /\ UNCHANGED notClient

\* a Close that calls c.pool.Close() without the check
CloseGuardNone(pl) == TRUE

\* Close: "if c.pool != nil"
CloseGuard(pl) == pl # NilPool

\* Close: c.pool.Close() when the guard lets it; c.pool is left as it is
ClientClose ==
    /\ Running
    /\ IF CloseGuard(pool)
       THEN IF pool = NilPool
            THEN /\ outcome' = Ended("Close", "panic", Nil)
                 /\ pools' = pools
            ELSE /\ outcome' = Ended("Close", "nil", Nil)
                 /\ pools' = [pools EXCEPT ![pool] = "closed"]
       ELSE /\ outcome' = Ended("Close", "nil", Nil)
            /\ pools' = pools
    /\ pool' = pool
    /\ UNCHANGED notClient

\* Connect: parse the configuration, make the pool, ping it, and only then
\* "c.pool = pool"; a pool whose ping failed is dropped as it is
ClientConnect ==
    /\ Running
    /\ Len(pools) < MaxPools
    /\ \/ /\ outcome' = Ended("Connect", "error",
                              ErrorfW("failed to parse connection string: %w", NoNum, DriverError("parse")))
          /\ UNCHANGED <<pool, pools>>
       \/ /\ \E e \in {PgError, CtxCanceled} :
                outcome' = Ended("Connect", "error",
                                 ErrorfW("failed to create connection pool: %w", NoNum, e))
          /\ UNCHANGED <<pool, pools>>
       \/ /\ \E e \in {PgError, CtxCanceled} :
                outcome' = Ended("Connect", "error",
                                 ErrorfW("failed to ping database: %w", NoNum, e))
          /\ pools' = Append(pools, "open")
          /\ pool' = pool
       \/ /\ outcome' = Ended("Connect", "nil", Nil)
          /\ pools' = Append(pools, "open")
          /\ pool' = Len(pools')
    /\ UNCHANGED notClient

NextClient ==
    \/ ClientConnect
    \/ ClientClose
    \/ ClientPing
    \/ ClientExec
    \/ ClientQueryRow
    \/ ClientQueryRows
    \/ ClientExecBatch
    \/ ClientExecTx

SpecClient == InitClient /\ [][NextClient]_vars

(***************************************************************************)
(* LoadMigrationsFromPath: specification SpecLoad.  A file name is the     *)
(* sequence of its characters; a directory is a sequence of entries with   *)
(* distinct names, in any order.                                           *)
(***************************************************************************)
MaxEntries == 3

File(name) == [name |-> name, dir |-> FALSE]

Dir(name) == [name |-> name, dir |-> TRUE]

Sql == <<".", "s", "q", "l">>

\* the entries a directory is made of
Catalogue ==
    { File(<<"0", "0", "1", "_", "c">> \o Sql),      \* 001_c.sql
      File(<<"0", "0", "2", "_", "a">> \o Sql),      \* 002_a.sql
      File(<<"a", "b", "c", "_", "b">> \o Sql),      \* abc_b.sql
      File(<<"2", "_", "b", "_", "c">> \o Sql),      \* 2_b_c.sql
      File(<<"1", "a">> \o Sql),                     \* 1a.sql
      File(<<"1", "_", "a", ".", "t", "x", "t">>),   \* 1_a.txt
      File(<<"_", "a">> \o Sql),                     \* _a.sql
      File(<<"-", "1", "_", "x">> \o Sql),           \* -1_x.sql
      File(<<"+", "2", "_", "x">> \o Sql),           \* +2_x.sql
      Dir(<<"3", "_", "d">> \o Sql) }                \* 3_d.sql, a directory

\* what os.ReadDir can return: at most MaxEntries entries of distinct names
Listings ==
    UNION {{l \in [1..n -> Catalogue] : \A a, b \in 1..n : a # b => l[a] # l[b]}
           : n \in 0..MaxEntries}

\* strings.HasSuffix(name, suffix)
HasSuffix(name, suffix) ==
    /\ Len(name) >= Len(suffix)
    /\ SubSeq(name, Len(name) - Len(suffix) + 1, Len(name)) = suffix

\* strings.TrimSuffix(name, suffix)
TrimSuffix(name, suffix) ==
    IF HasSuffix(name, suffix) THEN SubSeq(name, 1, Len(name) - Len(suffix)) ELSE name

\* strings.Index(name, sep) for a separator of one character; 0 when absent
Index(name, sep) ==
    IF \E k \in 1..Len(name) : name[k] = sep
    THEN CHOOSE k \in 1..Len(name) : name[k] = sep /\ \A j \in 1..(k - 1) : name[j] # sep
    ELSE 0

\* strings.SplitN(name, sep, 2)
SplitN2(name, sep) ==
    IF Index(name, sep) = 0 THEN <<name>>
    ELSE <<SubSeq(name, 1, Index(name, sep) - 1),
           SubSeq(name, Index(name, sep) + 1, Len(name))>>

Digit == [c \in {"0", "1", "2", "3", "4", "5", "6", "7", "8", "9"} |->
             CASE c = "0" -> 0 [] c = "1" -> 1 [] c = "2" -> 2 [] c = "3" -> 3
               [] c = "4" -> 4 [] c = "5" -> 5 [] c = "6" -> 6 [] c = "7" -> 7
               [] c = "8" -> 8 [] c = "9" -> 9]

RECURSIVE Digits(_, _)
\* the digits of s read from the left onto the value n
Digits(s, n) == IF s = <<>> THEN n ELSE Digits(Tail(s), n * 10 + Digit[Head(s)])

\* strconv.Atoi(s): an optional sign and at least one digit, nothing else
Atoi(s) ==
    LET body == IF s # <<>> /\ Head(s) \in {"+", "-"} THEN Tail(s) ELSE s
    IN  IF body = <<>> \/ \E k \in 1..Len(body) : body[k] \notin DOMAIN Digit
        THEN [err |-> TRUE, n |-> 0]
        ELSE [err |-> FALSE,
              n |-> IF Head(s) = "-" THEN 0 - Digits(body, 0) ELSE Digits(body, 0)]

\* "if !entry.IsDir() && strings.HasSuffix(entry.Name(), ".sql")", then the
\* two "continue" tests
Accepted(entry) ==
    /\ ~entry.dir
    /\ HasSuffix(entry.name, Sql)
    /\ Len(SplitN2(entry.name, "_")) >= 2
    /\ ~Atoi(SplitN2(entry.name, "_")[1]).err

\* the Migration built from an accepted entry
Loaded(entry) ==
    [Version |-> Atoi(SplitN2(entry.name, "_")[1]).n,
     Description |-> TrimSuffix(entry.name, Sql)]

\* the slice left as the loop built it
SortSliceNone(ms) == {ms}

\* sort.Slice(migrations, less by Version): some ordering of the slice in
\* which no element has a lower version than one before it (the sort is
\* not stable)
SortSlice(ms) ==
    {[k \in 1..Len(ms) |-> ms[f[k]]] :
        f \in {g \in [1..Len(ms) -> 1..Len(ms)] :
                  /\ \A a, b \in 1..Len(ms) : a # b => g[a] # g[b]
                  /\ \A a, b \in 1..Len(ms) : a < b => ms[g[a]].Version <= ms[g[b]].Version}}

LoadInit ==
    /\ entries \in Listings
    /\ loaded = <<>>
    /\ lpc = "ReadDir"
    /\ li = 1
    /\ lret = Nil

InitLoad ==
    /\ LoadInit
    /\ SeqInit
    /\ ClientParked
    /\ TxParked
    /\ BatchParked

\* entries, err := os.ReadDir(migrationsPath)
ReadDir ==
    /\ lpc = "ReadDir"
    /\ \/ /\ lpc' = "loop"
          /\ lret' = lret
       \/ /\ lpc' = "done"
          /\ lret' = ErrorfW("error reading migrations directory: %w", NoNum, DriverError("read"))
    /\ UNCHANGED <<entries, loaded, li>>
    /\ UNCHANGED notLoad

\* one turn of "for _, entry := range entries"
LoadEntry ==
    /\ lpc = "loop"
    /\ li <= Len(entries)
    /\ IF ~Accepted(entries[li])
       THEN /\ li' = li + 1
            /\ UNCHANGED <<loaded, lpc, lret>>
       ELSE \/ /\ loaded' = Append(loaded, Loaded(entries[li]))
               /\ li' = li + 1
               /\ UNCHANGED <<lpc, lret>>
            \/ /\ loaded' = <<>>
               /\ lret' = ErrorfW("error reading migration file %s: %w", NoNum, DriverError("read"))
               /\ lpc' = "done"
               /\ li' = li
    /\ UNCHANGED entries
    /\ UNCHANGED notLoad

\* after the loop: sort.Slice and "return migrations, nil"
LoadSort ==
    /\ lpc = "loop"
    /\ li > Len(entries)
    /\ loaded' \in SortSlice(loaded)
    /\ lpc' = "done"
    /\ UNCHANGED <<entries, li, lret>>
    /\ UNCHANGED notLoad

NextLoad ==
    \/ ReadDir
    \/ LoadEntry
    \/ LoadSort

SpecLoad == InitLoad /\ [][NextLoad]_vars

(***************************************************************************)
(* The same caller on a database to which every version was applied by an  *)
(* earlier run: specification SpecRound.                                   *)
(***************************************************************************)
\* the database after a Migrate of the versions vs returned nil
AppliedDb(vs) ==
    [tableExists |-> TRUE,
     ledger |-> {LedgerRow([Version |-> v, Description |-> "m"], 0) : v \in vs},
     schema |-> [v \in Versions |-> IF v \in vs THEN 1 ELSE 0]]

InitRound ==
    /\ db = AppliedDb(Versions)
    /\ CallerInit
    /\ ClientParked
    /\ TxParked
    /\ BatchParked
    /\ LoadParked

SpecRound == InitRound /\ [][Next]_vars

(***************************************************************************)
(* Two managers on one database, each making one call of Migrate or        *)
(* ApplyMigration: specification SpecConc.  Their steps interleave in any  *)
(* order.  The server makes an INSERT wait while another open transaction  *)
(* holds an uncommitted row of the same version.                           *)
(***************************************************************************)
Callers == {"a", "b"}

\* a manager about to run the method name on the slice ms (the one migration
\* of ApplyMigration, nothing for RollbackLastMigration)
NewCaller(name, ms) ==
    [op |-> name,
     pc |-> CASE name = "Migrate" -> "Migrate.init"
              [] name = "ApplyMigration" -> "ExecTx.begin"
              [] OTHER -> "Rollback.query",
     tx |-> NoTx, migrations |-> ms, i |-> 1, applied |-> <<>>,
     migration |-> IF name = "ApplyMigration" THEN ms[1] ELSE NoMigration,
     fnErr |-> Nil, txRet |-> Nil, ret |-> Nil,
     lastVersion |-> 0, rollbacks |-> {},
     executed |-> <<>>,                     \* versions whose body it sent
     commits |-> [v \in Versions |-> 0],    \* bodies (or rollback SQL) it committed
     removed |-> 0]                         \* ledger rows its commits removed

\* the calls a manager can make
MigrateCalls ==
    {NewCaller("Migrate", ms) : ms \in MigrationSlices}
        \cup {NewCaller("ApplyMigration", <<m>>) : m \in Migrations}

InitConc ==
    /\ db = EmptyDb
    /\ wk \in [Callers -> MigrateCalls]
    /\ users = {}
    /\ CallerInit
    /\ ClientParked
    /\ BatchParked
    /\ LoadParked

\* the variables SpecConc leaves alone
notConc ==
    <<tx, held, ctxDone, pc, op, migrations, migration, i, applied, fnErr, txRet,
      ret, callNo, h, rollbacks, lastVersion, users, clientVars, batchVars, loadVars>>

\* another manager's open transaction holds an uncommitted row of version v
InsertWaits(p, v) ==
    \E q \in Callers \ {p} :
        /\ wk[q].tx.open
        /\ ~wk[q].tx.aborted
        /\ \E r \in wk[q].tx.w.ins : r.version = v

\* an INSERT that waits for nobody
ConcInsertOutcomesNoWait(t, d, m, waits) == InsertOutcomes(FALSE, t, d, m)

\* errors of the INSERT into migrations when other transactions are open:
\* while it waits for another transaction's row it can only fail (timeout,
\* cancellation on the server); the step that succeeds is taken after the
\* other transaction has ended
ConcInsertOutcomes(t, d, m, waits) ==
    IF waits /\ t.open /\ ~t.aborted /\ d.tableExists THEN {PgError}
    ELSE InsertOutcomes(FALSE, t, d, m)

\* m.InitMigrationTable(ctx) of manager p
ConcInit(p) ==
    /\ wk[p].pc = "Migrate.init"
    /\ \E e \in PoolOutcomes(FALSE) :
        IF e = Nil
        THEN /\ db' = [db EXCEPT !.tableExists = TRUE]
             /\ wk' = [wk EXCEPT ![p].pc = "Migrate.get"]
        ELSE /\ db' = db
             /\ wk' = [wk EXCEPT ![p].pc = "idle",
                                 ![p].ret = ErrorfW("error creating migrations table: %w", NoNum, e)]
    /\ UNCHANGED notConc

\* m.GetAppliedMigrations(ctx) of manager p
ConcGet(p) ==
    /\ wk[p].pc = "Migrate.get"
    /\ \/ /\ db.tableExists
          /\ wk' = [wk EXCEPT ![p].applied = AppliedMap(db), ![p].pc = "Migrate.loop"]
       \/ \E e \in (PoolOutcomes(FALSE) \cup (IF db.tableExists THEN {} ELSE {UndefinedTable})) \ {Nil} :
          \E msg \in GetAppliedFailures(db) :
            wk' = [wk EXCEPT ![p].pc = "idle", ![p].ret = ErrorfW(msg, NoNum, e)]
    /\ UNCHANGED db
    /\ UNCHANGED notConc

\* one iteration of the loop of Migrate of manager p
ConcLoop(p) ==
    /\ wk[p].pc = "Migrate.loop"
    /\ IF wk[p].i > Len(wk[p].migrations)
       THEN wk' = [wk EXCEPT ![p].pc = "idle", ![p].ret = Nil]
       ELSE LET m == wk[p].migrations[RangeIndex(wk[p].migrations, wk[p].i)] IN
            IF IsPending(wk[p].applied, m)
            THEN wk' = [wk EXCEPT ![p].migration = m, ![p].pc = "ExecTx.begin"]
            ELSE wk' = [wk EXCEPT ![p].i = @ + 1]
    /\ UNCHANGED db
    /\ UNCHANGED notConc

\* tx, err := c.pool.Begin(ctx) of manager p
ConcBegin(p) ==
    /\ wk[p].pc = "ExecTx.begin"
    /\ \E e \in PoolOutcomes(FALSE) :
        wk' = [wk EXCEPT ![p].tx = IF e = Nil
                                   THEN [open |-> TRUE, aborted |-> FALSE, w |-> NoWrites]
                                   ELSE NoTx,
                         ![p].txRet = IF e = Nil THEN Nil ELSE BeginReturn(e),
                         ![p].fnErr = Nil,
                         ![p].pc = AfterBegin(e)]
    /\ UNCHANGED db
    /\ UNCHANGED notConc

\* the work function of ApplyMigration of manager p, first statement
ConcExec(p) ==
    /\ wk[p].pc = "fn.exec"
    /\ wk[p].op \in {"Migrate", "ApplyMigration"}
    /\ \E e \in TxOutcomes(FALSE, wk[p].tx) :
        IF e = Nil
        THEN /\ db' = ExecMigrationSQL(db, wk[p].tx.w, wk[p].migration)[1]
             /\ wk' = [wk EXCEPT ![p].tx.w = ExecMigrationSQL(db, wk[p].tx.w, wk[p].migration)[2],
                                 ![p].executed = Append(@, wk[p].migration.Version),
                                 ![p].fnErr = Nil,
                                 ![p].pc = "fn.insert"]
        ELSE /\ db' = db
             /\ wk' = [wk EXCEPT ![p].tx = AbortedBy(@, e),
                                 ![p].executed = Append(@, wk[p].migration.Version),
                                 ![p].fnErr = ErrorfW("error applying migration %d: %w",
                                                      wk[p].migration.Version, e),
                                 ![p].pc = AfterFn(e)]
    /\ UNCHANGED notConc

\* the work function of ApplyMigration of manager p, second statement
ConcInsert(p) ==
    /\ wk[p].pc = "fn.insert"
    /\ \E e \in ConcInsertOutcomes(wk[p].tx, db, wk[p].migration,
                                   InsertWaits(p, wk[p].migration.Version)) :
        IF e = Nil
        THEN wk' = [wk EXCEPT ![p].tx.w = InsertRow(@, wk[p].migration, p),
                              ![p].fnErr = Nil,
                              ![p].pc = AfterFn(Nil)]
        ELSE wk' = [wk EXCEPT ![p].tx = AbortedBy(@, e),
                              ![p].fnErr = ErrorfW("error registering migration %d: %w",
                                                   wk[p].migration.Version, e),
                              ![p].pc = AfterFn(e)]
    /\ UNCHANGED db
    /\ UNCHANGED notConc

\* rbErr := tx.Rollback(ctx) of manager p
ConcRollback(p) ==
    /\ wk[p].pc = "ExecTx.rollback"
    /\ \E e \in (IF ~wk[p].tx.open THEN {ErrTxClosed} ELSE PoolOutcomes(FALSE)) :
        wk' = [wk EXCEPT ![p].txRet = RollbackReturn(wk[p].fnErr, e),
                         ![p].tx = NoTx,
                         ![p].pc = "ApplyMigration.return"]
    /\ UNCHANGED db
    /\ UNCHANGED notConc

\* err := tx.Commit(ctx) of manager p
ConcCommit(p) ==
    /\ wk[p].pc = "ExecTx.commit"
    /\ \E e \in CommitOutcomes(FALSE, wk[p].tx) :
        /\ db' = IF e = Nil THEN Install(db, wk[p].tx.w) ELSE db
        /\ wk' = [wk EXCEPT ![p].txRet = CommitReturn(e),
                            ![p].tx = NoTx,
                            ![p].commits = IF e = Nil
                                           THEN [v \in Versions |->
                                                    @[v] + (IF wk[p].tx.w.schema[v] # 0 THEN 1 ELSE 0)]
                                           ELSE @,
                            ![p].removed = IF e = Nil
                                           THEN @ + Cardinality({r \in db.ledger :
                                                                   r.version \in wk[p].tx.w.del})
                                           ELSE @,
                            ![p].pc = AfterCommit(e)]
    /\ UNCHANGED notConc

\* ExecTx has returned to ApplyMigration of manager p, which returns to its
\* caller or to the loop of Migrate
ConcApplyReturn(p) ==
    /\ wk[p].pc = "ApplyMigration.return"
    /\ wk[p].op \in {"Migrate", "ApplyMigration"}
    /\ IF wk[p].op = "ApplyMigration"
       THEN wk' = [wk EXCEPT ![p].ret = wk[p].txRet, ![p].pc = "idle"]
       ELSE IF wk[p].txRet # Nil
            THEN wk' = [wk EXCEPT ![p].ret = MigrateReturn(wk[p].txRet), ![p].pc = "idle"]
            ELSE wk' = [wk EXCEPT ![p].i = @ + 1, ![p].pc = "Migrate.loop"]
    /\ UNCHANGED db
    /\ UNCHANGED notConc

NextConc ==
    \/ \E p \in Callers : ConcInit(p)
    \/ \E p \in Callers : ConcGet(p)
    \/ \E p \in Callers : ConcLoop(p)
    \/ \E p \in Callers : ConcBegin(p)
    \/ \E p \in Callers : ConcExec(p)
    \/ \E p \in Callers : ConcInsert(p)
    \/ \E p \in Callers : ConcRollback(p)
    \/ \E p \in Callers : ConcCommit(p)
    \/ \E p \in Callers : ConcApplyReturn(p)

SpecConc == InitConc /\ [][NextConc]_vars


(***************************************************************************)
(* Two managers on one migrated database, each making one call of          *)
(* RollbackLastMigration: specification SpecConcRb.  The server makes a    *)
(* DELETE wait while another open transaction holds an uncommitted         *)
(* deletion of the same row; once that transaction has committed, the      *)
(* DELETE finds no row and succeeds.                                       *)
(***************************************************************************)

\* the calls of RollbackLastMigration a manager can make
RollbackCalls ==
    {[NewCaller("RollbackLastMigration", <<>>) EXCEPT !.rollbacks = rb] : rb \in SUBSET Versions}

InitConcRb ==
    /\ db = AppliedDb(Versions)
    /\ wk \in [Callers -> RollbackCalls]
    /\ users = {}
    /\ CallerInit
    /\ ClientParked
    /\ BatchParked
    /\ LoadParked

\* another manager's open transaction holds an uncommitted deletion of the
\* row of version v
DeleteWaits(p, v) ==
    \E q \in Callers \ {p} :
        /\ wk[q].tx.open
        /\ ~wk[q].tx.aborted
        /\ v \in wk[q].tx.w.del
        /\ v \in LedgerVersions(db)

\* the read of the last ledger row and the lookup of its rollback, manager p
ConcQuery(p) ==
    /\ wk[p].pc = "Rollback.query"
    /\ \E e \in LastRowOutcomes(FALSE, db) :
        IF e # Nil
        THEN wk' = [wk EXCEPT ![p].ret = QueryReturn(e), ![p].pc = "idle"]
        ELSE wk' = [wk EXCEPT ![p].lastVersion = LastRow(db),
                              ![p].pc = AfterLookup(HasRollback(wk[p].rollbacks, LastRow(db))),
                              ![p].ret = IF HasRollback(wk[p].rollbacks, LastRow(db))
                                         THEN Nil
                                         ELSE NoRollbackReturn(LastRow(db))]
    /\ UNCHANGED db
    /\ UNCHANGED notConc

\* the work function of RollbackLastMigration of manager p, first statement
ConcRollbackSQL(p) ==
    /\ wk[p].pc = "fn.exec"
    /\ wk[p].op = "RollbackLastMigration"
    /\ \E e \in TxOutcomes(FALSE, wk[p].tx) :
        IF e = Nil
        THEN wk' = [wk EXCEPT ![p].tx.w = RunRollback(@, wk[p].lastVersion),
                              ![p].executed = Append(@, wk[p].lastVersion),
                              ![p].fnErr = Nil,
                              ![p].pc = "fn.delete"]
        ELSE wk' = [wk EXCEPT ![p].tx = AbortedBy(@, e),
                              ![p].executed = Append(@, wk[p].lastVersion),
                              ![p].fnErr = ErrorfW("error applying rollback %d: %w",
                                                   wk[p].lastVersion, e),
                              ![p].pc = AfterFn(e)]
    /\ UNCHANGED db
    /\ UNCHANGED notConc

\* the work function of RollbackLastMigration of manager p, second statement
ConcDelete(p) ==
    /\ wk[p].pc = "fn.delete"
    /\ \E e \in (IF DeleteWaits(p, wk[p].lastVersion)
                 THEN TxOutcomes(FALSE, wk[p].tx) \ {Nil}
                 ELSE TxOutcomes(FALSE, wk[p].tx)) :
        IF e = Nil
        THEN wk' = [wk EXCEPT ![p].tx.w = DeleteRow(@, wk[p].lastVersion),
                              ![p].fnErr = Nil,
                              ![p].pc = AfterFn(Nil)]
        ELSE wk' = [wk EXCEPT ![p].tx = AbortedBy(@, e),
                              ![p].fnErr = ErrorfW("error deleting migration record %d: %w",
                                                   wk[p].lastVersion, e),
                              ![p].pc = AfterFn(e)]
    /\ UNCHANGED db
    /\ UNCHANGED notConc

\* RollbackLastMigration of manager p returns what ExecTx returned
ConcRollbackReturn(p) ==
    /\ wk[p].pc = "ApplyMigration.return"
    /\ wk[p].op = "RollbackLastMigration"
    /\ wk' = [wk EXCEPT ![p].ret = wk[p].txRet, ![p].pc = "idle"]
    /\ UNCHANGED db
    /\ UNCHANGED notConc

NextConcRb ==
    \/ \E p \in Callers : ConcQuery(p)
    \/ \E p \in Callers : ConcBegin(p)
    \/ \E p \in Callers : ConcRollbackSQL(p)
    \/ \E p \in Callers : ConcDelete(p)
    \/ \E p \in Callers : ConcRollback(p)
    \/ \E p \in Callers : ConcCommit(p)
    \/ \E p \in Callers : ConcRollbackReturn(p)

SpecConcRb == InitConcRb /\ [][NextConcRb]_vars

(***************************************************************************)
(* Vocabulary of the properties.                                           *)
(***************************************************************************)
\* a top-level call has returned
Returned == pc = "idle" /\ callNo > 0

\* ExecTx has just returned to the method that called it
TxReturned == pc = "ApplyMigration.return"

\* ExecTx has just returned to ApplyMigration
ApplyReturned == TxReturned /\ op \in {"Migrate", "ApplyMigration"}

\* versions whose body was sent in the running (or last) call, in order
Executed == ExecutedVersions(migrations, h.executed)

\* errors.Is: e is err or one of the errors err wraps with %w
Unwraps(err, e) == \E k \in 1..Len(err) : SubSeq(err, k, Len(err)) = e

\* the text of err contains e, formatted with %v
Formats(err, e) == \E k \in 1..Len(err) : \E j \in 1..Len(err[k].v) : err[k].v[j] = e

\* loop indices of the input whose version had no ledger row when the call
\* started
PendingAtStart == {j \in 1..Len(migrations) : migrations[j].Version \notin LedgerVersions(h.db0)}

\* the input is in ascending version order
Ascending(ms) == \A a, b \in 1..Len(ms) : a < b => ms[a].Version <= ms[b].Version

\* no two elements of the input carry the same version
UniqueVersions(ms) == \A a, b \in 1..Len(ms) : a # b => ms[a].Version # ms[b].Version

\* no higher version is executed before a lower one
NoHigherBeforeLower == \A a, b \in 1..Len(Executed) : a < b => Executed[a] <= Executed[b]

(***************************************************************************)
(* C1: pending migrations are applied in ascending version order whatever  *)
(* the order of the input.                                                 *)
(***************************************************************************)
\* C1 as stated: in every Migrate call, for every input order, no migration
\* with a higher version is executed before one with a lower version.
C1_AscendingForAnyInputOrder == op = "Migrate" => NoHigherBeforeLower

\* C1 amended: Migrate executes the pending migrations in the order of its
\* input (each executed element lies later in the slice than the one
\* executed before it), so no higher version is executed before a lower one
\* when the input is in ascending version order.
C1_ExecutedInInputOrder ==
    op = "Migrate" =>
        /\ \A a, b \in 1..Len(h.executed) : a < b => h.executed[a] < h.executed[b]
        /\ Ascending(migrations) => NoHigherBeforeLower

\* a Migrate call that executed two migrations and returned nil
C1_Witness ==
    /\ Returned /\ op = "Migrate" /\ ret = Nil
    /\ Len(h.executed) >= 2
    /\ migrations[1].Version < migrations[2].Version

(***************************************************************************)
(* C2: Migrate twice in a row with the same set is Migrate once.           *)
(***************************************************************************)
\* the second of two consecutive Migrate calls with the same slice, of
\* unique versions, has returned
SecondMigrateReturned == Returned /\ op = "Migrate" /\ h.again /\ UniqueVersions(migrations)

\* the call executed no body and left the ledger as it found it
ExecutedNothing == h.executed = <<>> /\ db.ledger = h.db0.ledger /\ db.schema = h.db0.schema

\* no version was executed twice in the call
ExecutedOnce == \A a, b \in 1..Len(Executed) : a # b => Executed[a] # Executed[b]

\* C2 as stated: whatever the first call returned, the second call executes
\* no migration body and leaves the ledger of the first call.
C2_SecondMigrateExecutesNothing == SecondMigrateReturned => ExecutedNothing

\* C2 amended: when the first of the two calls returned nil, the second call
\* executes no migration body and leaves the ledger (and the schema) as the
\* first call left it; a call that returns nil has executed no version
\* twice, so across the two calls no migration is executed more than once.
C2_IdempotentAfterSuccess ==
    /\ (SecondMigrateReturned /\ h.prevNil) => ExecutedNothing
    /\ (Returned /\ op = "Migrate" /\ ret = Nil /\ UniqueVersions(migrations)) => ExecutedOnce

\* the second call returned nil after a first call that had applied something
C2_Witness ==
    /\ SecondMigrateReturned /\ h.prevNil /\ ret = Nil
    /\ migrations # <<>>
    /\ \A j \in 1..Len(migrations) :
         \E r \in db.ledger : r.version = migrations[j].Version /\ r.applied_at = callNo - 1


(***************************************************************************)
(* C3: a failure of migration K in Migrate keeps the earlier migrations    *)
(* and records nothing for K.                                              *)
(***************************************************************************)
\* Migrate has returned because ApplyMigration failed at loop index
\* h.failedAt; K is the version of that element
MigrateFailedAtK == Returned /\ op = "Migrate" /\ h.failedAt > 0

K == migrations[h.failedAt].Version

\* every element processed before K in the call, of a lower version, has a
\* ledger row
EarlierLowerRecorded ==
    \A j \in 1..(h.failedAt - 1) :
        migrations[j].Version < K => migrations[j].Version \in LedgerVersions(db)

\* C3 as stated: the earlier lower versions are recorded, K has no ledger
\* row, and the error returned is the error of K's ApplyMigration.
C3_FailedMigrationHasNoRow ==
    MigrateFailedAtK =>
        /\ EarlierLowerRecorded
        /\ K \notin LedgerVersions(db)
        /\ ret = txRet /\ ret # Nil

\* C3 amended: the earlier lower versions are recorded; the failed attempt
\* of K records nothing and changes nothing (the database is what it was
\* when K's transaction was entered), so K has a ledger row only if an
\* earlier element of the same input carried version K and was applied; the
\* error returned is the error of K's ApplyMigration.
C3_FailedAttemptRecordsNothing ==
    MigrateFailedAtK =>
        /\ EarlierLowerRecorded
        /\ db = h.txDb0
        /\ K \in LedgerVersions(db) =>
              \E j \in 1..(h.failedAt - 1) : migrations[j].Version = K
        /\ ret = txRet /\ ret # Nil

\* Migrate applied a lower version, then failed at K after K's body had run
\* in the transaction
C3_Witness ==
    /\ MigrateFailedAtK
    /\ h.failedAt = 2
    /\ migrations[1].Version < K
    /\ h.db0.ledger = {}
    /\ h.work # NoWrites
    /\ LedgerVersions(db) = {migrations[1].Version}

(***************************************************************************)
(* C4: Migrate executes exactly the migrations that were pending when the  *)
(* call started, and leaves the applied ones alone.                        *)
(***************************************************************************)
\* C4: in a Migrate call only versions without a ledger row at the start of
\* the call are executed, and every ledger row of the start of the call
\* stays as it was; when the call returns nil, every pending version was
\* executed exactly once and has exactly one new ledger row and one new
\* body in the schema, and nothing else changed.
C4_ExecutesExactlyPending ==
    op = "Migrate" =>
        /\ \A k \in 1..Len(h.executed) : h.executed[k] \in PendingAtStart
        /\ h.db0.ledger \subseteq db.ledger
        /\ (Returned /\ ret = Nil) =>
              /\ {Executed[k] : k \in 1..Len(Executed)} = {migrations[j].Version : j \in PendingAtStart}
              /\ ExecutedOnce
              /\ \A j \in PendingAtStart :
                    /\ LedgerRow(migrations[j], callNo) \in db.ledger
                    /\ db.schema[migrations[j].Version] = h.db0.schema[migrations[j].Version] + 1
              /\ Cardinality(db.ledger) = Cardinality(h.db0.ledger) + Len(h.executed)
              /\ \A v \in LedgerVersions(h.db0) : db.schema[v] = h.db0.schema[v]

\* Migrate returned nil after skipping an applied version and executing a
\* pending one
C4_Witness ==
    /\ Returned /\ op = "Migrate" /\ ret = Nil
    /\ h.db0.ledger # {}
    /\ Len(h.executed) = 1
    /\ Len(migrations) = 2
    /\ migrations[1].Version \in LedgerVersions(h.db0)

(***************************************************************************)
(* C5: ApplyMigration is atomic over the body and the ledger row.          *)
(***************************************************************************)
\* C5: when ApplyMigration returns nil, the schema holds one more body of
\* the version and the ledger holds its new row; when it returns an error,
\* the schema and the ledger are what they were when it was called.
C5_ApplyMigrationAtomic ==
    ApplyReturned =>
        \/ /\ txRet = Nil
           /\ db.schema[migration.Version] = h.txDb0.schema[migration.Version] + 1
           /\ LedgerRow(migration, callNo) \in db.ledger \ h.txDb0.ledger
        \/ /\ txRet # Nil
           /\ db.schema = h.txDb0.schema
           /\ db.ledger = h.txDb0.ledger

\* ApplyMigration returned an error after its body had run in the
\* transaction and the ledger insert failed
C5_Witness ==
    /\ ApplyReturned
    /\ txRet # Nil
    /\ h.work.schema[migration.Version] = 1
    /\ fnErr # Nil
    /\ fnErr[1].msg = "error registering migration %d: %w"


(***************************************************************************)
(* C6: ExecTx is all-or-nothing.                                           *)
(***************************************************************************)
\* C6: when ExecTx returns nil, the database is the database of its start
\* with all writes of the work function installed; when the work function
\* returned an error or the commit failed, the database is the database of
\* its start.
C6_ExecTxAllOrNothing ==
    TxReturned =>
        /\ txRet = Nil => db = Install(h.txDb0, h.work)
        /\ (fnErr # Nil \/ h.commitErr # Nil) => db = h.txDb0

\* ExecTx returned after the commit of a work function that had written the
\* body and the ledger row failed
C6_Witness ==
    /\ ApplyReturned
    /\ h.commitErr # Nil
    /\ h.work.schema[migration.Version] = 1
    /\ h.work.ins # {}
    /\ db = h.txDb0

(***************************************************************************)
(* C7: the error of ExecTx when the work function fails.                   *)
(***************************************************************************)
\* C7: when the work function failed and the rollback succeeded, ExecTx
\* returns the work function's error itself; when the rollback failed too,
\* it returns another error, whose text holds both the work function's
\* error and the rollback's error.
C7_WorkFailureError ==
    (TxReturned /\ fnErr # Nil /\ h.nRollback = 1) =>
        /\ h.rbErr = Nil => txRet = fnErr
        /\ h.rbErr # Nil =>
              /\ Formats(txRet, fnErr)
              /\ Formats(txRet, h.rbErr)
              /\ txRet # fnErr
              /\ txRet[1].msg # fnErr[1].msg

\* the work function failed on the server and the rollback failed as well
C7_Witness ==
    /\ TxReturned
    /\ Unwraps(fnErr, PgError)
    /\ h.rbErr # Nil

(***************************************************************************)
(* C8: one of rollback and commit per ExecTx.                              *)
(***************************************************************************)
\* rollback was attempted iff the work function failed, commit iff it
\* succeeded, and exactly one of the two was attempted
OneOfRollbackCommit ==
    /\ h.nRollback + h.nCommit = 1
    /\ h.nRollback = 1 <=> fnErr # Nil
    /\ h.nCommit = 1 <=> (h.nFn = 1 /\ fnErr = Nil)

\* C8 as stated: in every invocation of ExecTx exactly one of rollback and
\* commit is attempted.
C8_ExactlyOneInEveryInvocation == TxReturned => OneOfRollbackCommit

\* C8 amended: in every invocation of ExecTx whose transaction was begun,
\* exactly one of rollback and commit is attempted: rollback iff the work
\* function failed, commit iff it succeeded; when begin fails neither is
\* attempted; and at no moment have both been attempted (a failed commit is
\* not followed by a rollback).
C8_OneOfRollbackCommitOnceBegun ==
    /\ h.nRollback + h.nCommit <= 1
    /\ (TxReturned /\ h.began) => OneOfRollbackCommit
    /\ (TxReturned /\ ~h.began) => h.nRollback + h.nCommit = 0

\* ExecTx returned after a failed commit, without a rollback attempt
C8_Witness ==
    /\ TxReturned
    /\ h.commitErr # Nil
    /\ h.nCommit = 1
    /\ h.nRollback = 0

(***************************************************************************)
(* C9: no transaction is left open by ExecTx.                              *)
(***************************************************************************)
\* C9: once ExecTx has returned, on any path, its transaction is closed and
\* no pooled connection is checked out.
C9_TransactionClosedAfterExecTx ==
    pc \notin {"fn.exec", "fn.insert", "fn.delete", "ExecTx.rollback", "ExecTx.commit"} =>
        ~tx.open /\ held = 0

\* ExecTx returned after the context was cancelled during the work and the
\* rollback failed
C9_Witness ==
    /\ TxReturned
    /\ h.cancelledInFn
    /\ h.rbErr # Nil
    /\ h.began

(***************************************************************************)
(* C10: a failure to begin is returned at once.                            *)
(***************************************************************************)
\* C10: when pool.Begin fails, ExecTx returns that error wrapped, the work
\* function is not invoked, and neither commit nor rollback is attempted.
C10_BeginFailureReturnsAtOnce ==
    h.beginErr # Nil =>
        /\ pc \in {"ApplyMigration.return", "idle"}
        /\ txRet # h.beginErr
        /\ Unwraps(txRet, h.beginErr)
        /\ h.nFn = 0 /\ h.nCommit = 0 /\ h.nRollback = 0
        /\ db = h.txDb0

\* ExecTx returned the failure of pool.Begin
C10_Witness ==
    /\ TxReturned
    /\ h.beginErr # Nil
    /\ ~h.began

(***************************************************************************)
(* RollbackLastMigration.                                                  *)
(***************************************************************************)
\* RollbackLastMigration has returned to its caller
RollbackReturned == Returned /\ op = "RollbackLastMigration"

\* the highest version that had a ledger row when the call started
Highest(d) == CHOOSE v \in LedgerVersions(d) : \A u \in LedgerVersions(d) : u <= v

\* the call ran no statement of the rollback mapping, began no transaction
\* and left the database as it found it
RolledNothing ==
    /\ h.rolled = <<>>
    /\ h.deleted = <<>>
    /\ ~h.began
    /\ db = h.db0

\* the causes a failed read of the last row can have
ReadCauses == {ErrNoRows, UndefinedTable, CtxCanceled, PgError}

C13_MissingRollbackChangesNothing ==
    RollbackReturned /\ h.db0.ledger # {} /\ Highest(h.db0) \notin rollbacks =>
        /\ ret # Nil
        /\ RolledNothing
        /\ held = 0

\* the highest version had no rollback while a lower one had, and the call
\* returned the error that names the highest version
C13_Witness ==
    /\ RollbackReturned
    /\ h.db0.ledger # {}
    /\ Highest(h.db0) \notin rollbacks
    /\ \E v \in rollbacks : v < Highest(h.db0) /\ v \in LedgerVersions(h.db0)
    /\ ret = <<Frame("no rollback for migration %d", Highest(h.db0))>>

\* the database of the call's start with version v rolled back: its row
\* gone, its rollback SQL run once, nothing else touched
RolledBack(d, v) ==
    [d EXCEPT !.ledger = {r \in @ : r.version # v},
              !.schema[v] = @ - 1]

\* C14: a RollbackLastMigration that returns nil removed exactly one ledger
\* row, that of the highest version the ledger had at the call, and ran that
\* version's rollback SQL and no other; one that returns an error left the
\* ledger and the schema as they were; no call rolls back more than one
\* version.
C14_RollsBackExactlyTheLast ==
    /\ op = "RollbackLastMigration" => Len(h.rolled) <= 1 /\ Len(h.deleted) <= 1
    /\ RollbackReturned /\ ret = Nil =>
          /\ h.db0.ledger # {}
          /\ h.rolled = <<Highest(h.db0)>>
          /\ h.deleted = <<Highest(h.db0)>>
          /\ db = RolledBack(h.db0, Highest(h.db0))
          /\ Cardinality(db.ledger) = Cardinality(h.db0.ledger) - 1
    /\ RollbackReturned /\ ret # Nil => db = h.db0

\* a rollback on a ledger of two versions returned nil
C14_Witness ==
    /\ RollbackReturned
    /\ ret = Nil
    /\ Cardinality(h.db0.ledger) = 2
    /\ Cardinality(db.ledger) = 1

(***************************************************************************)
(* The life of a ledger row.                                               *)
(***************************************************************************)
\* the step is the commit of the transaction of an apply of version v that
\* returns nil
AppliesSuccessfully(v) ==
    /\ pc = "ExecTx.commit"
    /\ op \in {"Migrate", "ApplyMigration"}
    /\ migration.Version = v
    /\ h.executed # <<>> /\ Executed[Len(Executed)] = v
    /\ txRet' = Nil

\* the step is the commit of the transaction of a RollbackLastMigration that
\* rolls back v and no other version, and returns nil
RollsBackExactly(v) ==
    /\ pc = "ExecTx.commit"
    /\ op = "RollbackLastMigration"
    /\ h.rolled = <<v>>
    /\ h.deleted = <<v>>
    /\ txRet' = Nil

RowsCreatedOnlyByApply ==
    \A r \in db'.ledger \ db.ledger : AppliesSuccessfully(r.version)

RowsNeverModified ==
    \A r \in db.ledger : \A q \in db'.ledger : q.version = r.version => q = r

RowsDeletedOnlyByRollback ==
    \A r \in db.ledger :
        r.version \notin LedgerVersions(db') => RollsBackExactly(r.version)

InitChangesNoRow ==
    op = "InitMigrationTable" \/ pc = "Migrate.init" => db'.ledger = db.ledger

\* C15: across any sequence of InitMigrationTable, Migrate, ApplyMigration
\* and RollbackLastMigration calls, a step adds a ledger row for v only when
\* it commits a successful apply of v, no step changes a row that stays, a
\* step removes the row of v only when it commits a rollback of exactly v,
\* and InitMigrationTable changes no row.
C15_LedgerRowLifecycle ==
    [][/\ RowsCreatedOnlyByApply
       /\ RowsNeverModified
       /\ RowsDeletedOnlyByRollback
       /\ InitChangesNoRow]_vars

\* InitMigrationTable returned nil on a ledger that held a row, and the row
\* is still there
C15_Witness ==
    /\ Returned
    /\ op = "InitMigrationTable"
    /\ ret = Nil
    /\ h.nInit = 1
    /\ h.db0.ledger # {}
    /\ db.ledger = h.db0.ledger

(***************************************************************************)
(* Migrate stops at the first failure.                                     *)
(***************************************************************************)
\* the loop indices whose body the call sent come in strictly increasing
\* order: none twice, none after a later one
IssuedOnceInOrder ==
    \A a, b \in 1..Len(h.executed) : a < b => h.executed[a] < h.executed[b]

\* C17: Migrate stops at the first failing migration and returns its error:
\* nothing later in the sequence is attempted, and the ledger init, the
\* ledger read and each migration's statements are issued at most once in a
\* call, whether they fail or not.
C17_StopsAtFirstFailure ==
    op = "Migrate" =>
        /\ h.nInit <= 1 /\ h.nGet <= 1
        /\ IssuedOnceInOrder
        /\ h.nFn <= 1 /\ h.nRollback <= 1 /\ h.nCommit <= 1
        /\ Returned /\ ret # Nil =>
              /\ h.nGet = 1 => h.nInit = 1
              /\ h.failedAt = 0 => h.executed = <<>> /\ db.ledger = h.db0.ledger
              /\ h.failedAt > 0 =>
                    /\ ret = txRet
                    /\ h.nGet = 1
                    /\ \A k \in 1..Len(h.executed) : h.executed[k] <= h.failedAt
                    /\ \A j \in (h.failedAt + 1)..Len(migrations) :
                          migrations[j].Version \in LedgerVersions(db) =>
                              migrations[j].Version \in LedgerVersions(h.db0)
                                  \/ \E k \in 1..h.failedAt :
                                         migrations[k].Version = migrations[j].Version
        /\ Returned /\ ret = Nil => h.failedAt = 0

\* Migrate failed at its first element, a pending one, with a pending one
\* after it that was never attempted
C17_Witness ==
    /\ Returned
    /\ op = "Migrate"
    /\ ret # Nil
    /\ h.failedAt = 1
    /\ Len(migrations) = 2
    /\ migrations[1].Version # migrations[2].Version
    /\ h.db0.ledger = {}
    /\ h.executed = <<1>>
    /\ db.ledger = {}

(***************************************************************************)
(* Two transactions inserting the same unique key.                         *)
(***************************************************************************)
BothReturned == \A p \in Workers : wk[p].pc = "done"

\* the callers whose ExecTx returned nil
Committers == {p \in Workers : wk[p].pc = "done" /\ wk[p].ret = Nil}

\* the rows of the table with the key
KeyRows == {r \in users : r.email = Key}

\* the server answered the INSERT of both callers: each was accepted or
\* refused for the key
BothInserted == \A p \in Workers : wk[p].answered

\* C11 as stated: of two ExecTx calls that insert the same unique key, in
\* sequence or interleaved, exactly one commits, the other returns a
\* uniqueness violation, and the table ends with exactly one row for the key.
C11_ExactlyOneCommits ==
    BothReturned /\ BothInserted =>
        /\ Cardinality(Committers) = 1
        /\ \A p \in Workers \ Committers :
              Unwraps(wk[p].ret, UniqueViolation) \/ Formats(wk[p].ret, UniqueViolation)
        /\ Cardinality(KeyRows) = 1

\* C11 amended: the table never holds more than one row for the key, a row
\* is there exactly when its caller's ExecTx returned nil or is returning
\* it, and at most one caller commits; when no call of either caller met a
\* driver fault or a cancelled context, exactly one commits and the other
\* returns the uniqueness violation itself.
C11_AtMostOneCommits ==
    /\ Cardinality(KeyRows) <= 1
    /\ \A p \in Workers :
          wk[p].pc = "done" => (UserRow(p) \in users <=> wk[p].ret = Nil)
    /\ BothReturned =>
          /\ Cardinality(Committers) <= 1
          /\ users = {UserRow(p) : p \in Committers}
          /\ (\A p \in Workers : ~wk[p].fault) =>
                /\ Cardinality(Committers) = 1
                /\ \A p \in Workers \ Committers : wk[p].ret = UniqueViolation

\* both callers returned without a fault: one committed, and the other's
\* INSERT was refused
C11_Witness ==
    /\ BothReturned
    /\ \A p \in Workers : ~wk[p].fault
    /\ Cardinality(Committers) = 1
    /\ \E p \in Workers : wk[p].ret = UniqueViolation
    /\ Cardinality(users) = 1

(***************************************************************************)
(* ExecBatch with a failing statement.                                     *)
(***************************************************************************)
\* ExecBatch has returned, and the server had rejected the statement of
\* index served.failed
BatchFailedAtI == bpc = "done" /\ served.failed # NoNum

\* the index the returned error reports
ReportedIndex == bret[1].n

\* C16 as stated: when the statement of index i fails, ExecBatch returns an
\* error that reports i, the effects of the statements 0..i-1 are visible
\* afterwards, and the statements after i were never executed.
C16_EarlierEffectsVisible ==
    BatchFailedAtI =>
        /\ bret # Nil /\ ReportedIndex = served.failed
        /\ \A k \in 0..(served.failed - 1) : k \in visible
        /\ \A k \in DOMAIN queries : k > served.failed => k \notin served.executed

\* C16 amended: when the statement of index i fails, ExecBatch returns
\* "error in batch query i" around the statement's error and the statements
\* after i were never executed; the batch ran in one implicit transaction,
\* so no effect of any of its statements is visible afterwards, those of
\* 0..i-1 included.
C16_FailedBatchLeavesNothing ==
    BatchFailedAtI =>
        /\ bret = ErrorfW("error in batch query %d: %w", served.failed, PgError)
        /\ served.executed = 0..served.failed
        /\ \A k \in DOMAIN queries : k > served.failed => k \notin served.executed
        /\ visible = {}

\* a batch of three statements whose second was rejected has returned
C16_Witness ==
    /\ BatchFailedAtI
    /\ BatchLen(queries) = 3
    /\ served.failed = 1
    /\ ReportedIndex = 1
    /\ visible = {}

(***************************************************************************)
(* The client before Connect, and Close.                                   *)
(***************************************************************************)
ClientOps == {"Ping", "Exec", "QueryRow", "QueryRows", "ExecBatch", "ExecTx"}

\* the last call was made on a client that no Connect had given a pool
BeforeConnect == outcome.pool0 = NilPool

\* C18: every client operation attempted before a successful Connect
\* returns an error and does not crash on the uninitialized pool.
C18_GuardedBeforeConnect ==
    outcome.op \in ClientOps /\ BeforeConnect => outcome.result = "error"

\* C19: Close never crashes; on a client without a pool (never connected, or
\* whose Connect failed) it changes nothing; a second Close right after a
\* Close changes nothing more; and a failed Connect leaves c.pool as it was,
\* nil on a client that was never connected.
C19_CloseIdempotent ==
    /\ outcome.op = "Close" =>
          /\ outcome.result = "nil"
          /\ pool = outcome.pool0
          /\ BeforeConnect => pools = outcome.pools0
          /\ outcome.prev = "Close" => pools = outcome.pools0
          /\ ~BeforeConnect =>
                pools = [outcome.pools0 EXCEPT ![pool] = "closed"]
    /\ outcome.op = "Connect" /\ outcome.result = "error" =>
          /\ pool = outcome.pool0
          /\ pool <= Len(outcome.pools0)
          /\ BeforeConnect => pool = NilPool

\* a second Close on a connected client has returned
C19_Witness ==
    /\ outcome.op = "Close"
    /\ outcome.prev = "Close"
    /\ pool # NilPool
    /\ pools[pool] = "closed"
    /\ outcome.result = "nil"

(***************************************************************************)
(* LoadMigrationsFromPath.                                                 *)
(***************************************************************************)
Numerals == {"0", "1", "2", "3", "4", "5", "6", "7", "8", "9"}

\* tok is a decimal integer: digits, with a sign before them or none
IsInteger(tok) ==
    \E sign \in {<<>>, <<"+">>, <<"-">>} :
        /\ Len(tok) > Len(sign)
        /\ SubSeq(tok, 1, Len(sign)) = sign
        /\ \A k \in (Len(sign) + 1)..Len(tok) : tok[k] \in Numerals

RECURSIVE Pow10(_)
Pow10(n) == IF n = 0 THEN 1 ELSE 10 * Pow10(n - 1)

\* the position in the numerals of the digit c
DigitOf(c) == CHOOSE d \in 0..9 : <<"0", "1", "2", "3", "4", "5", "6", "7", "8", "9">>[d + 1] = c

RECURSIVE Weighted(_, _)
\* the sum of the digits of ds from position k on, each weighted by its place
Weighted(ds, k) ==
    IF k > Len(ds) THEN 0 ELSE DigitOf(ds[k]) * Pow10(Len(ds) - k) + Weighted(ds, k + 1)

\* the integer tok denotes
IntegerOf(tok) ==
    IF tok[1] = "-" THEN 0 - Weighted(Tail(tok), 1)
    ELSE IF tok[1] = "+" THEN Weighted(Tail(tok), 1)
    ELSE Weighted(tok, 1)

\* name is token, '_', remainder, where token has no '_'
SplitsAt(name, k) ==
    /\ k \in 1..Len(name)
    /\ name[k] = "_"
    /\ \A j \in 1..(k - 1) : name[j] # "_"

\* the entry is a file whose name ends in ".sql" and splits on its first
\* '_' into an integer and a remainder
Recognised(e) ==
    /\ ~e.dir
    /\ Len(e.name) >= 4
    /\ \A k \in 1..4 : e.name[Len(e.name) - 4 + k] = Sql[k]
    /\ \E k \in 1..Len(e.name) : SplitsAt(e.name, k) /\ IsInteger(SubSeq(e.name, 1, k - 1))

\* the version the name of a recognised entry gives
VersionOf(e) ==
    IntegerOf(SubSeq(e.name, 1, (CHOOSE k \in 1..Len(e.name) : SplitsAt(e.name, k)) - 1))

\* the name of e without ".sql"
Stem(e) == SubSeq(e.name, 1, Len(e.name) - 4)

LoadReturned == lpc = "done"

\* C20: when it returns without error, LoadMigrationsFromPath has returned
\* exactly one migration for every recognised entry (a file whose name ends
\* in ".sql" and splits on the first '_' into an integer and a remainder),
\* with that integer as version, and none for any other entry, in ascending
\* order of version whatever the order of the directory; it returns an
\* error only when a read fails, never for a name it does not recognise.
C20_OnePerRecognisedEntrySorted ==
    LoadReturned =>
        /\ lret = Nil =>
              /\ Len(loaded) = Cardinality({k \in 1..Len(entries) : Recognised(entries[k])})
              /\ \A k \in 1..Len(entries) :
                    Recognised(entries[k]) =>
                        \E j \in 1..Len(loaded) :
                            /\ loaded[j].Description = Stem(entries[k])
                            /\ loaded[j].Version = VersionOf(entries[k])
              /\ \A a, b \in 1..Len(loaded) : a < b => loaded[a].Version <= loaded[b].Version
        /\ lret # Nil =>
              /\ loaded = <<>>
              /\ \/ lret[1].msg = "error reading migrations directory: %w"
                 \/ /\ lret[1].msg = "error reading migration file %s: %w"
                    /\ \E k \in 1..Len(entries) : Recognised(entries[k])

\* the directory 002_a.sql, abc_b.sql, 001_c.sql, read in that order, gave
\* the versions 1, 2
C20_Witness ==
    /\ LoadReturned
    /\ lret = Nil
    /\ Len(entries) = 3
    /\ entries[1] = File(<<"0", "0", "2", "_", "a">> \o Sql)
    /\ entries[2] = File(<<"a", "b", "c", "_", "b">> \o Sql)
    /\ entries[3] = File(<<"0", "0", "1", "_", "c">> \o Sql)
    /\ Len(loaded) = 2
    /\ loaded[1].Version = 1
    /\ loaded[2].Version = 2

\* C21: every migration returned by LoadMigrationsFromPath has a
\* non-negative version: a file whose leading token is not a non-negative
\* integer, such as -1_x.sql, is ignored and not loaded.
C21_VersionsNonNegative ==
    LoadReturned /\ lret = Nil =>
        \A j \in 1..Len(loaded) : loaded[j].Version >= 0

(***************************************************************************)
(* Rollback and migrate as a round trip.                                   *)
(***************************************************************************)
\* the versions of the slice
SliceVersions(ms) == {ms[k].Version : k \in 1..Len(ms)}

\* Migrate has returned, right after a RollbackLastMigration that returned
\* nil, with the migration set that made the ledger the rollback found
MigratedAfterRollback ==
    /\ Returned
    /\ op = "Migrate"
    /\ h.prevRolled > 0
    /\ UniqueVersions(migrations)
    /\ SliceVersions(migrations) = LedgerVersions(h.db0) \cup {h.prevRolled}

\* C24: after a RollbackLastMigration of v that returned nil, v has no
\* ledger row, so a following Migrate with the same migration set executes
\* no version but v, and when it returns nil it has executed v once and the
\* applied versions and the schema are those from before the rollback; a
\* RollbackLastMigration that follows one rolls back a lower version.
C24_RollbackMigrateRoundTrip ==
    /\ h.prevRolled > 0 => h.prevRolled \notin LedgerVersions(h.db0)
    /\ MigratedAfterRollback =>
          /\ \A k \in 1..Len(Executed) : Executed[k] = h.prevRolled
          /\ Len(Executed) <= 1
          /\ ret = Nil =>
                /\ Executed = <<h.prevRolled>>
                /\ LedgerVersions(db) = LedgerVersions(h.db0) \cup {h.prevRolled}
                /\ db.schema = [h.db0.schema EXCEPT ![h.prevRolled] = @ + 1]
    /\ RollbackReturned /\ ret = Nil /\ h.prevRolled > 0 => lastVersion < h.prevRolled

\* the last version was rolled back, and the Migrate that followed applied
\* it again and returned nil
C24_Witness ==
    /\ MigratedAfterRollback
    /\ ret = Nil
    /\ Len(migrations) = MaxVersion
    /\ Executed = <<h.prevRolled>>
    /\ LedgerVersions(db) = Versions


\* manager p has returned from its call
ConcReturned(p) == wk[p].pc = "idle"

\* how many committed transactions of the managers carried the body of v
BodyCommits(v) == wk["a"].commits[v] + wk["b"].commits[v]

\* how many times manager p sent the body of v
BodySends(p, v) == Cardinality({k \in 1..Len(wk[p].executed) : wk[p].executed[k] = v})

\* manager p holds an uncommitted ledger row of v in an open transaction
HoldsRow(p, v) ==
    /\ wk[p].tx.open
    /\ ~wk[p].tx.aborted
    /\ \E r \in wk[p].tx.w.ins : r.version = v

\* C22: under any interleaving of concurrent Migrate and ApplyMigration calls,
\* and for inputs that repeat a version, the ledger never holds two rows of
\* one version and no migration body is committed twice: a call whose view of
\* the ledger is stale fails at the ledger insert, its transaction is rolled
\* back with the body it ran, and the call returns an error.
C22_ConcurrentApplyOnce ==
    /\ \A r1, r2 \in db.ledger : r1.version = r2.version => r1 = r2
    /\ \A v \in Versions :
        /\ db.schema[v] = BodyCommits(v)
        /\ db.schema[v] = IF v \in LedgerVersions(db) THEN 1 ELSE 0
        /\ \A p \in Callers :
            /\ HoldsRow(p, v) =>
                  /\ v \notin LedgerVersions(db)
                  /\ \A q \in Callers \ {p} : ~HoldsRow(q, v)
            /\ ConcReturned(p) /\ BodySends(p, v) > wk[p].commits[v] => wk[p].ret # Nil
            /\ ConcReturned(p) /\ wk[p].ret = Nil => BodySends(p, v) = wk[p].commits[v]

\* both managers ran the body of the same version; one committed it, the
\* other was refused at the ledger insert and returned the error
C22_Witness ==
    /\ \A p \in Callers : ConcReturned(p)
    /\ \E v \in Versions :
        /\ BodySends("a", v) = 1
        /\ BodySends("b", v) = 1
        /\ BodyCommits(v) = 1
        /\ db.schema[v] = 1
        /\ \E p \in Callers :
            /\ wk[p].commits[v] = 0
            /\ Unwraps(wk[p].ret, UniqueViolation)
            /\ wk[p].ret[1].msg = "error registering migration %d: %w"


\* how many committed transactions of the managers carried the rollback SQL
\* of v (under SpecConcRb the managers send nothing else)
RollbackCommits(v) == BodyCommits(v)

\* C23: under concurrent RollbackLastMigration calls the rollback SQL of an
\* applied version is committed at most once (two callers that both read
\* version v cannot both commit it), and a call that returns nil has deleted
\* exactly one ledger row.
C23_RollbackCommittedOnce ==
    /\ \A v \in Versions : RollbackCommits(v) <= 1
    /\ \A p \in Callers :
        ConcReturned(p) /\ wk[p].op = "RollbackLastMigration" /\ wk[p].ret = Nil
            => wk[p].removed = 1

====
